---- MODULE Spec2Model ----
(***************************************************************************)
(* Model of the transformation pipeline of src/src/transform.py            *)
(* (classes DataTransformer and DataQualityChecker).  One DataTransformer  *)
(* instance is modelled: its quality_report, and the position of a         *)
(* transform_transactions call as it walks through its six stages, and of  *)
(* the validate_against_customers call that follows it; and one            *)
(* DataQualityChecker instance: its thresholds and quality_issues, and the *)
(* position of a run_quality_checks call.                                  *)
(*                                                                         *)
(* Cells of a DataFrame are dynamically typed; a cell is a tagged value    *)
(* [k, s, n]: k is the kind ("null", "str", "num", "ts"), s the characters *)
(* of a string cell, n the number of a numeric cell (amounts in cents,     *)
(* timestamps in hours since a Monday 00:00 epoch).  A batch (DataFrame)   *)
(* is a sequence of rows, a row a function from column names to cells.     *)
(* The calendar columns transaction_year/month/day are not modelled: no    *)
(* stage reads them.                                                       *)
(***************************************************************************)
EXTENDS Integers, Sequences, FiniteSets, TLC

VARIABLES
    quality_report,   \* self.quality_report: dataset name -> statistics
    pc,               \* position of the current transform_transactions call,
                      \* "idle" between calls, "returned"/"raised" when one ended
    raw,              \* the batch the caller passed to the current/last call
    df,               \* the local df of transform_transactions
    stageIn,          \* the value of df the last executed stage received
    initial_count,    \* the local initial_count of transform_transactions
    outcome,          \* how the last call ended: "none", "returned", "raised"
    result,           \* the batch the last call returned (<<>> if it raised)
    error,            \* the exception the last call raised ("" if none)
    order,            \* an order of the five rules of stage 4, as rule numbers
    applied,          \* how many rules of `order` have been applied to df
    transactions,     \* validate_against_customers: the batch passed
    customers,        \* validate_against_customers: the customers passed
    validated,        \* validate_against_customers: the batch returned
    thresholds,       \* DataQualityChecker.thresholds
    quality_issues,   \* DataQualityChecker.quality_issues
    gpc,              \* position of the current run_quality_checks call
    gdf,              \* run_quality_checks: the df passed
    dataset_name,     \* run_quality_checks: the dataset_name passed
    all_passed,       \* run_quality_checks: the local all_passed, then the value returned
    issues0,          \* quality_issues as the current run_quality_checks call found it
    run_pc,           \* position of the current ETLPipeline.run call
    run_id,           \* ETLPipeline.run_id, 0 for None
    loader_run_id,    \* DataLoader.run_id, 0 for None
    etl_audit_log,    \* the rows of table etl_audit_log, row i that of run_id i
    calls,            \* the operations the current run has called, in order
    loaded,           \* load_transactions: the batch passed
    exc               \* the exception the current run is handling or has raised ("" if none)

ruleVars == <<order, applied>>
custVars == <<transactions, customers, validated>>
gateVars == <<thresholds, quality_issues, gpc, gdf, dataset_name, all_passed, issues0>>
runVars == <<run_pc, run_id, loader_run_id, etl_audit_log, calls, loaded, exc>>

vars == <<quality_report, pc, raw, df, stageIn, initial_count, outcome, result, error,
          order, applied, transactions, customers, validated,
          thresholds, quality_issues, gpc, gdf, dataset_name, all_passed, issues0,
          run_pc, run_id, loader_run_id, etl_audit_log, calls, loaded, exc>>

-----------------------------------------------------------------------------
(* Cells *)

Null == [k |-> "null", s |-> <<>>, n |-> 0]
Str(s) == [k |-> "str", s |-> s, n |-> 0]
Num(n) == [k |-> "num", s |-> <<>>, n |-> n]
Ts(n) == [k |-> "ts", s |-> <<>>, n |-> n]

IsNull(c) == c.k = "null"
NotNa(c) == c.k # "null"

-----------------------------------------------------------------------------
(* Strings: sequences of one-character strings *)

LowerLetters == <<"a","b","c","d","e","f","g","h","i","j","k","l","m",
                  "n","o","p","q","r","s","t","u","v","w","x","y","z">>
UpperLetters == <<"A","B","C","D","E","F","G","H","I","J","K","L","M",
                  "N","O","P","Q","R","S","T","U","V","W","X","Y","Z">>
Digits == <<"0","1","2","3","4","5","6","7","8","9">>

IndexIn(c, letters) ==
    IF \E i \in 1..Len(letters) : letters[i] = c
    THEN CHOOSE i \in 1..Len(letters) : letters[i] = c
    ELSE 0

ToUpperChar(c) ==
    IF IndexIn(c, LowerLetters) # 0 THEN UpperLetters[IndexIn(c, LowerLetters)] ELSE c
ToLowerChar(c) ==
    IF IndexIn(c, UpperLetters) # 0 THEN LowerLetters[IndexIn(c, UpperLetters)] ELSE c

\* str.upper() / str.lower()
StrUpper(s) == [i \in 1..Len(s) |-> ToUpperChar(s[i])]
StrLower(s) == [i \in 1..Len(s) |-> ToLowerChar(s[i])]

\* str.strip(): leading and trailing whitespace removed
RECURSIVE LStrip(_)
LStrip(s) == IF s # <<>> /\ Head(s) = " " THEN LStrip(Tail(s)) ELSE s
RECURSIVE RStrip(_)
RStrip(s) == IF s # <<>> /\ s[Len(s)] = " " THEN RStrip(SubSeq(s, 1, Len(s) - 1)) ELSE s
StrStrip(s) == RStrip(LStrip(s))

\* The value of a string of decimal digits, -1 if s is not one.
RECURSIVE DigitsValue(_, _)
DigitsValue(s, acc) ==
    IF s = <<>> THEN acc
    ELSE IF IndexIn(Head(s), Digits) = 0 THEN -1
    ELSE DigitsValue(Tail(s), acc * 10 + (IndexIn(Head(s), Digits) - 1))

(* String literals of the source *)

sCompleted == <<"c","o","m","p","l","e","t","e","d">>
sPending == <<"p","e","n","d","i","n","g">>
sFailed == <<"f","a","i","l","e","d">>
sUnknown == <<"u","n","k","n","o","w","n">>
sMerch0000 == <<"M","E","R","C","H","0","0","0","0">>
sNan == <<"n","a","n">>
sNone == <<"N","o","n","e">>
sSmall == <<"s","m","a","l","l">>
sMedium == <<"m","e","d","i","u","m">>
sLarge == <<"l","a","r","g","e">>
sVeryLarge == <<"v","e","r","y","_","l","a","r","g","e">>
sExceptional == <<"e","x","c","e","p","t","i","o","n","a","l">>
sLow == <<"l","o","w">>
sHigh == <<"h","i","g","h">>
sCritical == <<"c","r","i","t","i","c","a","l">>

-----------------------------------------------------------------------------
(* DataFrames: [cols |-> set of column names, rows |-> sequence of rows] *)

RawCols == {"transaction_id", "customer_id", "transaction_date", "amount",
            "merchant_id", "category", "status", "payment_method"}

Frame(cols, rows) == [cols |-> cols, rows |-> rows]
EmptyFrame == Frame({}, <<>>)

\* len(df)
FrameLen(d) == Len(d.rows)

\* The indices from i on that are in S, in order
TakeIndices(n, S, i) == SelectSeq([j \in 1..n |-> j], LAMBDA j : j >= i /\ j \in S)

\* The rows of `rows` at the indices `sel` lists
RowsAt(rows, sel) == [k \in 1..Len(sel) |-> rows[sel[k]]]

\* The rows of `rows` at the indices in S from i on, in order.
TakeRows(rows, S, i) == RowsAt(rows, TakeIndices(Len(rows), S, i))

\* The rows of d, as a set
RowSet(d) == {d.rows[i] : i \in 1..Len(d.rows)}

\* df[mask]: boolean-mask selection, `keep` the rows whose mask is True
Mask(d, keep) == [d EXCEPT !.rows = SelectSeq(d.rows, LAMBDA r : r \in keep)]

\* df[col] = values: assignment of one column, values[i] the cell of row i
SetCol(d, col, values) ==
    [cols |-> d.cols \cup {col},
     rows |-> [i \in 1..Len(d.rows) |->
                 [c \in (DOMAIN d.rows[i]) \cup {col} |->
                     IF c = col THEN values[i] ELSE d.rows[i][c]]]]

-----------------------------------------------------------------------------
(* Stage 1: _remove_duplicates *)

\* duplicated(keep='last'): the last occurrence is the one kept
Duplicated_KeepLast(rows, i) ==
    \E j \in (i + 1)..Len(rows) : rows[j].transaction_id = rows[i].transaction_id

\* only the second occurrence of an id is marked, a third one is kept
Duplicated_SecondOnly(rows, i) ==
    Cardinality({j \in 1..(i - 1) : rows[j].transaction_id = rows[i].transaction_id}) = 1

\* Series.duplicated(keep='first') on transaction_id: missing values equal each other
Duplicated(rows, i) ==
    \E j \in 1..(i - 1) : rows[j].transaction_id = rows[i].transaction_id

RemoveDuplicates(d) ==
    [d EXCEPT !.rows = TakeRows(d.rows, {i \in 1..Len(d.rows) : ~Duplicated(d.rows, i)}, 1)]

-----------------------------------------------------------------------------
(* Stage 2: _handle_missing_values *)

\* df[col] = v: the sentinel assigned to every cell, missing or not
FillNa_Always(c, v) == Str(v)

FillNa(c, v) == IF IsNull(c) THEN Str(v) ELSE c

\* df = df[df[field].notna()]
DropNa(d, field) == Mask(d, {r \in RowSet(d) : NotNa(r[field])})

\* df[col] = df[col].fillna(v)
FillNaCol(d, col, v) ==
    SetCol(d, col, [i \in 1..Len(d.rows) |-> FillNa(d.rows[i][col], v)])

\* customer_id left out of critical_fields
HandleMissingValues_KeepsNullCustomer(d) ==
    LET d1 == DropNa(d, "transaction_id")
        d3 == DropNa(d1, "amount")
        d4 == FillNaCol(d3, "category", sUnknown)
    IN  FillNaCol(d4, "merchant_id", sMerch0000)

\* category treated as a critical field: dropped, not filled
HandleMissingValues_DropsNullCategory(d) ==
    LET d1 == DropNa(d, "transaction_id")
        d2 == DropNa(d1, "customer_id")
        d3 == DropNa(d2, "amount")
        d4 == DropNa(d3, "category")
    IN  FillNaCol(d4, "merchant_id", sMerch0000)

HandleMissingValues(d) ==
    LET d1 == DropNa(d, "transaction_id")
        d2 == DropNa(d1, "customer_id")
        d3 == DropNa(d2, "amount")
        d4 == FillNaCol(d3, "category", sUnknown)
    IN  FillNaCol(d4, "merchant_id", sMerch0000)

-----------------------------------------------------------------------------
(* Stage 3: _validate_data_types *)

\* pd.to_datetime(errors='coerce') of one cell: a timestamp is kept, a missing
\* value and a string that is not a date become NaT.
ToDatetime(c) == IF c.k = "ts" THEN c ELSE Null

\* pd.to_numeric(errors='coerce') of one cell: a number is kept, a string of
\* decimal digits (surrounding blanks ignored) is parsed, anything else is NaN.
ToNumeric(c) ==
    IF c.k = "num" THEN c
    ELSE IF c.k = "str" /\ StrStrip(c.s) # <<>> /\ DigitsValue(StrStrip(c.s), 0) >= 0
         THEN Num(DigitsValue(StrStrip(c.s), 0) * 100)
    ELSE Null

\* What astype(str) makes of a missing value depends on the pandas build: the
\* string 'nan' or 'None' (pandas < 3), or the missing value itself (pandas >= 3).
NullAsStr == {Str(sNan), Str(sNone), Null}

\* Series.astype(str) of one cell
AsType_str(c, ns) == IF IsNull(c) THEN ns ELSE c

\* .str.strip().str.upper() / .str.strip().str.lower(): missing values stay missing
StripUpper(c) == IF c.k = "str" THEN Str(StrUpper(StrStrip(c.s))) ELSE c
StripLower(c) == IF c.k = "str" THEN Str(StrLower(StrStrip(c.s))) ELSE c

\* df['transaction_date'] = pd.to_datetime(df['transaction_date'], errors='coerce')
CoerceDatetime(d) ==
    SetCol(d, "transaction_date",
           [i \in 1..Len(d.rows) |-> ToDatetime(d.rows[i].transaction_date)])

\* df['amount'] = pd.to_numeric(df['amount'], errors='coerce')
CoerceNumeric(d) ==
    SetCol(d, "amount", [i \in 1..Len(d.rows) |-> ToNumeric(d.rows[i].amount)])

\* df[col] = df[col].astype(str).str.strip().str.upper()
NormalizeUpper(d, col, ns) ==
    SetCol(d, col, [i \in 1..Len(d.rows) |-> StripUpper(AsType_str(d.rows[i][col], ns))])

\* .str.strip() without .str.lower()
NormalizeLower_StripOnly(d, col, ns) ==
    SetCol(d, col, [i \in 1..Len(d.rows) |->
                       IF AsType_str(d.rows[i][col], ns).k = "str"
                       THEN Str(StrStrip(AsType_str(d.rows[i][col], ns).s))
                       ELSE AsType_str(d.rows[i][col], ns)])

\* df[col] = df[col].astype(str).str.strip().str.lower()
NormalizeLower(d, col, ns) ==
    SetCol(d, col, [i \in 1..Len(d.rows) |-> StripLower(AsType_str(d.rows[i][col], ns))])

ValidateDataTypes(d, ns) ==
    LET d1 == CoerceDatetime(d)
        d2 == CoerceNumeric(d1)
        d3 == DropNa(d2, "transaction_date")
        d4 == DropNa(d3, "amount")
        d5 == NormalizeUpper(d4, "transaction_id", ns)
        d6 == NormalizeUpper(d5, "customer_id", ns)
        d7 == NormalizeUpper(d6, "merchant_id", ns)
        d8 == NormalizeLower(d7, "status", ns)
        d9 == NormalizeLower(d8, "category", ns)
    IN  NormalizeLower(d9, "payment_method", ns)

-----------------------------------------------------------------------------
(* Stage 4: _apply_business_rules *)

\* datetime.now(), in hours since the epoch: a Wednesday, 12:00
Now == 800 * 24 + 12
\* pd.Timedelta(days=730), in hours
TwoYears == 730 * 24

valid_statuses == {sCompleted, sPending, sFailed}

\* Rule 1 with >= for >: a zero amount passes
Rule1_NonNegative(r) == r.amount.k = "num" /\ r.amount.n >= 0

\* Comparisons of a column with a scalar are False on a missing value.
Rule1(r) == r.amount.k = "num" /\ r.amount.n > 0
Rule2(r) == r.amount.k = "num" /\ r.amount.n <= 1000000 * 100
Rule3(r) == r.status.k = "str" /\ r.status.s \in valid_statuses
Rule4(r) == r.transaction_date.k = "ts" /\ r.transaction_date.n <= Now
Rule5(r) == r.transaction_date.k = "ts" /\ r.transaction_date.n >= Now - TwoYears

\* Rule 4 as a filter that stops at the first future-dated row
Filter4_StopsAtFirstFuture(d) ==
    [d EXCEPT !.rows =
        SubSeq(d.rows, 1,
               IF \E i \in 1..Len(d.rows) : ~Rule4(d.rows[i])
               THEN (CHOOSE i \in 1..Len(d.rows) :
                        /\ ~Rule4(d.rows[i])
                        /\ \A j \in 1..(i - 1) : Rule4(d.rows[j])) - 1
               ELSE Len(d.rows))]

\* df = df[rule]: the rows satisfying one rule
Filter1(d) == Mask(d, {r \in RowSet(d) : Rule1(r)})
Filter2(d) == Mask(d, {r \in RowSet(d) : Rule2(r)})
Filter3(d) == Mask(d, {r \in RowSet(d) : Rule3(r)})
Filter4(d) == Mask(d, {r \in RowSet(d) : Rule4(r)})
Filter5(d) == Mask(d, {r \in RowSet(d) : Rule5(r)})

ApplyBusinessRules(d) == Filter5(Filter4(Filter3(Filter2(Filter1(d)))))

\* The filter of rule k
FilterBy(k, d) ==
    CASE k = 1 -> Filter1(d)
      [] k = 2 -> Filter2(d)
      [] k = 3 -> Filter3(d)
      [] k = 4 -> Filter4(d)
      [] k = 5 -> Filter5(d)

-----------------------------------------------------------------------------
(* Stage 5: _add_derived_fields *)

\* float('inf') as a bin edge: above every amount
Inf == 2147483647

\* pd.cut(x, bins, labels) with right-closed bins: the label of the bin
\* (bins[i], bins[i+1]] holding x, a missing value if no bin holds it.
Cut(x, bins, labels) ==
    IF \E i \in 1..Len(labels) : bins[i] < x /\ x <= bins[i + 1]
    THEN Str(labels[CHOOSE i \in 1..Len(labels) : bins[i] < x /\ x <= bins[i + 1]])
    ELSE Null

\* Series.dt.dayofweek (Monday = 0) and Series.dt.hour
DayOfWeek(c) == (c.n \div 24) % 7
Hour(c) == c.n % 24

\* pd.cut(..., right=False): bins closed on the left, [0,50) [50,200) ...
AmountCategory_LeftClosed(r) ==
    Cut(r.amount.n, <<-1, 50 * 100 - 1, 200 * 100 - 1, 500 * 100 - 1, 1000 * 100 - 1, Inf>>,
        <<sSmall, sMedium, sLarge, sVeryLarge, sExceptional>>)

AmountCategory(r) ==
    Cut(r.amount.n, <<0, 50 * 100, 200 * 100, 500 * 100, 1000 * 100, Inf>>,
        <<sSmall, sMedium, sLarge, sVeryLarge, sExceptional>>)

\* the two amount increments as alternatives: above 10000 gives 40, not 70
RiskScore_ExclusiveAmount(r) ==
    0 + (IF r.amount.n > 10000 * 100 THEN 40
         ELSE IF r.amount.n > 5000 * 100 THEN 30 ELSE 0)
      + (IF r.status = Str(sFailed) THEN 50 ELSE 0)
      + (IF r.transaction_dayofweek.n \in {5, 6} THEN 10 ELSE 0)
      + (IF r.transaction_hour.n \in 0..5 THEN 20 ELSE 0)

RiskScore(r) ==
    0 + (IF r.amount.n > 5000 * 100 THEN 30 ELSE 0)
      + (IF r.amount.n > 10000 * 100 THEN 40 ELSE 0)
      + (IF r.status = Str(sFailed) THEN 50 ELSE 0)
      + (IF r.transaction_dayofweek.n \in {5, 6} THEN 10 ELSE 0)
      + (IF r.transaction_hour.n \in 0..5 THEN 20 ELSE 0)

RiskLevel(r) ==
    Cut(r.risk_score.n, <<-1, 20, 50, 80, 100>>, <<sLow, sMedium, sHigh, sCritical>>)

WithDayOfWeek(d) ==
    SetCol(d, "transaction_dayofweek",
           [i \in 1..Len(d.rows) |-> Num(DayOfWeek(d.rows[i].transaction_date))])
WithHour(d) ==
    SetCol(d, "transaction_hour",
           [i \in 1..Len(d.rows) |-> Num(Hour(d.rows[i].transaction_date))])
WithAmountCategory(d) ==
    SetCol(d, "amount_category", [i \in 1..Len(d.rows) |-> AmountCategory(d.rows[i])])
WithRiskScore(d) ==
    SetCol(d, "risk_score", [i \in 1..Len(d.rows) |-> Num(RiskScore(d.rows[i]))])
WithRiskLevel(d) ==
    SetCol(d, "risk_level", [i \in 1..Len(d.rows) |-> RiskLevel(d.rows[i])])
WithProcessedAt(d) ==
    SetCol(d, "processed_at", [i \in 1..Len(d.rows) |-> Ts(Now)])

AddDerivedFields(d) ==
    WithProcessedAt(WithRiskLevel(WithRiskScore(WithAmountCategory(WithHour(WithDayOfWeek(d))))))

-----------------------------------------------------------------------------
(* Stage 6: _final_validation *)

required_fields == {"transaction_id", "customer_id", "transaction_date",
                    "amount", "merchant_id", "category", "status",
                    "payment_method", "risk_score", "risk_level"}

missing_fields(d) == {f \in required_fields : f \notin d.cols}

\* df[required_fields].isnull().sum().sum()
critical_nulls(d) ==
    Cardinality({<<i, f>> \in (1..Len(d.rows)) \X required_fields : IsNull(d.rows[i][f])})

\* _final_validation without its null check
FinalValidationError_NoNullCheck(d) ==
    IF missing_fields(d) # {} THEN "ValueError: Missing required fields" ELSE ""

\* The exception _final_validation raises on d, "" if it returns d.
FinalValidationError(d) ==
    IF missing_fields(d) # {} THEN "ValueError: Missing required fields"
    ELSE IF critical_nulls(d) > 0 THEN "ValueError: Critical fields contain null values"
    ELSE ""

-----------------------------------------------------------------------------
(* The quality report *)

\* a / b * 100 as the exact fraction num/den
Percent(a, b) == [num |-> a * 100, den |-> b]
Zero == [num |-> 0, den |-> 1]

null_counts(d) ==
    [c \in d.cols |-> Cardinality({i \in 1..Len(d.rows) : IsNull(d.rows[i][c])})]

\* the percentage computed without the initial_count > 0 guard
ReportEntry_NoZeroGuard(initial, d) ==
    [initial_records |-> initial,
     final_records |-> FrameLen(d),
     records_removed |-> initial - FrameLen(d),
     removal_percentage |-> Percent(initial - FrameLen(d), initial),
     null_counts |-> null_counts(d),
     timestamp |-> Now]

ReportEntry(initial, d) ==
    [initial_records |-> initial,
     final_records |-> FrameLen(d),
     records_removed |-> initial - FrameLen(d),
     removal_percentage |->
         IF initial > 0 THEN Percent(initial - FrameLen(d), initial) ELSE Zero,
     null_counts |-> null_counts(d),
     timestamp |-> Now]

EmptyReport == [name \in {} |-> Zero]

\* self.quality_report[name] = entry
SetItem(report, name, entry) ==
    [n \in (DOMAIN report) \cup {name} |-> IF n = name THEN entry ELSE report[n]]

-----------------------------------------------------------------------------
(* validate_against_customers *)

\* set(customers['customer_id'].unique())
valid_customers(c) == {c.rows[i].customer_id : i \in 1..Len(c.rows)}

\* isin that also lets a missing customer_id through
ValidateAgainstCustomers_KeepsNull(t, c) ==
    Mask(t, {r \in RowSet(t) : IsNull(r.customer_id) \/ r.customer_id \in valid_customers(c)})

\* transactions[transactions['customer_id'].isin(valid_customers)]
ValidateAgainstCustomers(t, c) ==
    Mask(t, {r \in RowSet(t) : r.customer_id \in valid_customers(c)})

-----------------------------------------------------------------------------
(* DataQualityChecker.__init__ *)

\* a threshold fraction such as 0.05, as num/den
Fraction(num, den) == [num |-> num, den |-> den]

\* The thresholds of a checker constructed without any
DefaultThresholds ==
    [max_null_percentage |-> Fraction(5, 100),
     min_row_count |-> 100,
     max_duplicate_percentage |-> Fraction(1, 100)]

\* The thresholds argument of the constructor: None, or a dict
NoThresholds == [given |-> FALSE, dict |-> [k \in {} |-> 0]]
GivenThresholds(dict) == [given |-> TRUE, dict |-> dict]

\* self.thresholds = thresholds or {...}: None and the empty dict are falsy
NewThresholds(arg) ==
    IF ~arg.given \/ DOMAIN arg.dict = {} THEN DefaultThresholds ELSE arg.dict

-----------------------------------------------------------------------------
(* DataQualityChecker: the checks *)

\* (a / b) * 100 > t * 100 for counts a, b and a threshold fraction t; with
\* b = 0 the quotient is nan, and nan > x is False
ExceedsPercentage(a, b, t) == b # 0 /\ a * t.den > t.num * b

\* f"{a / b * 100:.2f}": the percentage in hundredths, to the nearest
Hundredths(a, b) == (2 * a * 10000 + b) \div (2 * b)

\* df.isnull().sum().sum() and len(df) * len(df.columns)
NullCells(d) ==
    Cardinality({<<i, c>> \in (1..Len(d.rows)) \X d.cols : IsNull(d.rows[i][c])})
Cells(d) == Len(d.rows) * Cardinality(d.cols)

\* df['transaction_id'].duplicated().sum()
DuplicateRows(d) == Cardinality({i \in 1..Len(d.rows) : Duplicated(d.rows, i)})

\* len(df) <= min_row_count: a batch of exactly the minimum fails
RowCountFails_AtMost(d, th) == Len(d.rows) <= th.min_row_count

\* len(df) < self.thresholds['min_row_count']
RowCountFails(d, th) == Len(d.rows) < th.min_row_count

\* the null percentage taken per column, the check failing if any column exceeds
NullPercentageFails_AnyColumn(d, th) ==
    \E c \in d.cols :
        ExceedsPercentage(Cardinality({i \in 1..Len(d.rows) : IsNull(d.rows[i][c])}),
                          Len(d.rows), th.max_null_percentage)

\* null_pct > self.thresholds['max_null_percentage'] * 100
NullPercentageFails(d, th) == ExceedsPercentage(NullCells(d), Cells(d), th.max_null_percentage)

\* duplicated(keep=False): every row of a repeated id counted
DuplicatesFail_CountsAll(d, th) ==
    /\ "transaction_id" \in d.cols
    /\ ExceedsPercentage(
           Cardinality({i \in 1..Len(d.rows) :
               \E j \in (1..Len(d.rows)) \ {i} :
                   d.rows[j].transaction_id = d.rows[i].transaction_id}),
           Len(d.rows), th.max_duplicate_percentage)

\* 'transaction_id' in df.columns and dup_pct > max_duplicate_percentage * 100
DuplicatesFail(d, th) ==
    /\ "transaction_id" \in d.cols
    /\ ExceedsPercentage(DuplicateRows(d), Len(d.rows), th.max_duplicate_percentage)

\* The issue strings, by their parts
RowCountIssue(name, d, th) ==
    [dataset |-> name, text |-> "Row count", value |-> Len(d.rows),
     limit |-> th.min_row_count]
NullPercentageIssue(name, d, th) ==
    [dataset |-> name, text |-> "Null percentage",
     value |-> Hundredths(NullCells(d), Cells(d)),
     limit |-> [num |-> th.max_null_percentage.num * 100, den |-> th.max_null_percentage.den]]
DuplicatesIssue(name, d) ==
    [dataset |-> name, text |-> "Duplicate percentage",
     value |-> Hundredths(DuplicateRows(d), Len(d.rows))]

-----------------------------------------------------------------------------
(* The batches a caller passes to transform_transactions *)

\* Longest batch drawn from CoreRows
MaxBatch == 3

Row(tid, cid, date, amount, merchant, category, status, pm) ==
    [transaction_id |-> tid, customer_id |-> cid, transaction_date |-> date,
     amount |-> amount, merchant_id |-> merchant, category |-> category,
     status |-> status, payment_method |-> pm]

idLower == Str(<<"t","x","n","1">>)
idUpper == Str(<<"T","X","N","1">>)
idPadded == Str(<<" ","T","X","N","1"," ">>)
idTwo == Str(<<"T","X","N","2">>)
idThree == Str(<<"T","X","N","3">>)
custOne == Str(<<"C","U","S","T","1">>)
custLower == Str(<<" ","c","u","s","t","2">>)
merchOne == Str(<<"M","E","R","C","H","1">>)
merchLower == Str(<<"m","e","r","c","h","2"," ">>)
catGroceries == Str(<<"g","r","o","c","e","r","i","e","s">>)
catMixed == Str(<<" ","R","e","t","a","i","l">>)
payCash == Str(<<"c","a","s","h">>)
payMixed == Str(<<"C","a","r","d"," ">>)
notADate == Str(<<"s","o","o","n">>)
notANumber == Str(<<"a","b","c">>)
digitsAmount == Str(<<"7","5">>)
statusPadded == Str(<<" ","C","o","m","p","l","e","t","e","d"," ">>)
statusUpper == Str(<<"P","E","N","D","I","N","G">>)
statusInvalid == Str(<<"i","n","v","a","l","i","d","_","s","t","a","t","u","s">>)

\* Tuesday 14:00, Tuesday 02:00, Saturday 14:00, Sunday 02:00, all within the last week
WeekdayNoon == Ts(799 * 24 + 14)
WeekdayNight == Ts(799 * 24 + 2)
SaturdayNoon == Ts(796 * 24 + 14)
SundayNight == Ts(797 * 24 + 2)
RecentDates == {WeekdayNoon, WeekdayNight, SaturdayNoon, SundayNight}

IdValues == {idLower, idUpper, idPadded, idTwo, Null}
CustomerValues == {custOne, custLower, Null}
DateValues == RecentDates \cup
    {Null, notADate, Ts(Now + 24), Ts(Now), Ts(Now - TwoYears), Ts(Now - TwoYears - 1)}
\* amounts in cents, on both sides of every threshold of the source
InRangeAmounts == {Num(1), Num(5000), Num(5001), Num(10050), Num(20000), Num(20001),
                   Num(50000), Num(50001), Num(100000), Num(100001),
                   Num(500000), Num(500001), Num(1000000), Num(1000001),
                   Num(1200000), Num(100000000)}
AmountValues == InRangeAmounts \cup
    {Null, notANumber, digitsAmount, Num(-1000), Num(0), Num(100000001)}
MerchantValues == {merchOne, merchLower, Null}
CategoryValues == {catGroceries, catMixed, Null}
StatusValues == {Str(sCompleted), Str(sPending), Str(sFailed), statusPadded,
                 statusUpper, statusInvalid, Null}
PaymentValues == {payCash, payMixed, Null}

BaseRow == Row(idUpper, custOne, WeekdayNoon, Num(10050), merchOne, catGroceries,
               Str(sCompleted), payCash)

\* Rows that differ from BaseRow in one field
OneFieldRows ==
    {[BaseRow EXCEPT !.transaction_id = v] : v \in IdValues} \cup
    {[BaseRow EXCEPT !.customer_id = v] : v \in CustomerValues} \cup
    {[BaseRow EXCEPT !.transaction_date = v] : v \in DateValues} \cup
    {[BaseRow EXCEPT !.amount = v] : v \in AmountValues} \cup
    {[BaseRow EXCEPT !.merchant_id = v] : v \in MerchantValues} \cup
    {[BaseRow EXCEPT !.category = v] : v \in CategoryValues} \cup
    {[BaseRow EXCEPT !.status = v] : v \in StatusValues} \cup
    {[BaseRow EXCEPT !.payment_method = v] : v \in PaymentValues}

\* Rows that pass every filter, over every combination the risk score reads
RiskRows ==
    {[BaseRow EXCEPT !.amount = a, !.status = s, !.transaction_date = t] :
        a \in InRangeAmounts, s \in {Str(sCompleted), Str(sFailed)}, t \in RecentDates}

WideRows == OneFieldRows \cup RiskRows

\* Rows of the batches with several rows: the same id with different contents,
\* ids equal up to case, defects removed by different stages
CoreRows ==
    {BaseRow,
     [BaseRow EXCEPT !.amount = Num(-1000)],
     [BaseRow EXCEPT !.transaction_id = idLower, !.amount = Num(25000)],
     [BaseRow EXCEPT !.transaction_id = idTwo, !.amount = Num(7525)],
     [BaseRow EXCEPT !.transaction_id = idTwo, !.customer_id = Null],
     [BaseRow EXCEPT !.transaction_id = idThree, !.amount = Num(1200000),
                     !.status = Str(sFailed)]}

RECURSIVE SeqsUpTo(_, _)
SeqsUpTo(S, n) ==
    IF n = 0 THEN {<<>>}
    ELSE LET shorter == SeqsUpTo(S, n - 1)
         IN  shorter \cup {Append(q, x) : q \in shorter, x \in S}

\* tests/test_transform.py sample_dirty_data
sample_dirty_data ==
    <<Row(Str(<<"T","X","N","0","0","1">>), Str(<<"C","U","S","T","0","0","1">>),
          WeekdayNoon, Num(10050), merchOne, catGroceries, Str(sCompleted), payCash),
      Row(Str(<<"T","X","N","0","0","2">>), Str(<<"C","U","S","T","0","0","2">>),
          WeekdayNoon, Num(25000), merchOne, catGroceries, Str(sCompleted), payCash),
      Row(Str(<<"T","X","N","0","0","2">>), Null,
          WeekdayNoon, Num(-5000), merchOne, Null, Str(sCompleted), payCash),
      Row(Str(<<"T","X","N","0","0","3">>), Str(<<"C","U","S","T","0","0","4">>),
          Ts(Now + 24), Num(7525), merchOne, catGroceries, statusInvalid, payCash),
      Row(Str(<<"T","X","N","0","0","4">>), Str(<<"C","U","S","T","0","0","5">>),
          WeekdayNoon, Null, merchOne, catGroceries, Str(sPending), payCash)>>

\* Five rows: #3 repeats the id of #2, #4 has no customer_id, #5 has amount -10
scenario_batch ==
    <<BaseRow,
      [BaseRow EXCEPT !.transaction_id = idTwo],
      [BaseRow EXCEPT !.transaction_id = idTwo, !.amount = Num(7525)],
      [BaseRow EXCEPT !.transaction_id = idThree, !.customer_id = Null],
      [BaseRow EXCEPT !.transaction_id = Str(<<"T","X","N","4">>), !.amount = Num(-1000)]>>

\* One row whose id, customer and status need trimming and case folding
mixed_case_batch ==
    <<[BaseRow EXCEPT !.transaction_id = idPadded, !.customer_id = custLower,
                      !.status = statusPadded]>>

\* A frame with the columns `cols` of the rows `rows`
Project(cols, rows) ==
    Frame(cols, [i \in 1..Len(rows) |-> [c \in cols |-> rows[i][c]]])

InputBatches ==
    {Frame(RawCols, <<r>>) : r \in WideRows} \cup
    {Frame(RawCols, q) : q \in SeqsUpTo(CoreRows, MaxBatch)} \cup
    {Frame(RawCols, sample_dirty_data), Frame(RawCols, scenario_batch),
     Frame(RawCols, mixed_case_batch)} \cup
    {Project(RawCols \ {c}, q) : c \in RawCols, q \in {<<>>, <<BaseRow>>}}

\* The customers ETLPipeline.run extracts: ids CUST1 and CUST2
raw_customers ==
    Frame({"customer_id"}, <<[customer_id |-> custOne],
                             [customer_id |-> Str(<<"C","U","S","T","2">>)]>>)

\* ETLPipeline.__init__ and DataLoader.__init__: no run_id yet; the audit
\* table is taken to be empty
RunVarsInit ==
    /\ run_pc = "idle"
    /\ run_id = 0
    /\ loader_run_id = 0
    /\ etl_audit_log = <<>>
    /\ calls = <<>>
    /\ loaded = EmptyFrame
    /\ exc = ""

-----------------------------------------------------------------------------
(* transform_transactions, one action per step *)

Init ==
    /\ quality_report = EmptyReport
    /\ pc = "idle"
    /\ raw = EmptyFrame
    /\ df = EmptyFrame
    /\ stageIn = EmptyFrame
    /\ initial_count = 0
    /\ outcome = "none"
    /\ result = EmptyFrame
    /\ error = ""
    /\ order = <<1, 2, 3, 4, 5>>
    /\ applied = 0
    /\ transactions = EmptyFrame
    /\ customers = EmptyFrame
    /\ validated = EmptyFrame
    /\ thresholds = DefaultThresholds
    /\ quality_issues = <<>>
    /\ gpc = "idle"
    /\ gdf = EmptyFrame
    /\ dataset_name = ""
    /\ all_passed = TRUE
    /\ issues0 = <<>>
    /\ RunVarsInit

\* An exception leaves transform_transactions: nothing is returned.
Raise(e) ==
    /\ pc' = "raised"
    /\ outcome' = "raised"
    /\ error' = e
    /\ UNCHANGED <<quality_report, raw, df, stageIn, initial_count, result>>
    /\ UNCHANGED <<ruleVars, custVars, gateVars, runVars>>

\* A stage returns d: the next statement of transform_transactions runs.
Advance(next, d) ==
    /\ pc' = next
    /\ stageIn' = df
    /\ df' = d
    /\ UNCHANGED <<quality_report, raw, initial_count, outcome, result, error>>
    /\ UNCHANGED <<ruleVars, custVars, gateVars, runVars>>

\* a call that starts by clearing the report
Call_ResetsReport ==
    /\ pc = "idle"
    /\ \E batch \in InputBatches :
        /\ raw' = batch
        /\ df' = batch
        /\ initial_count' = FrameLen(batch)
    /\ pc' = "remove_duplicates"
    /\ quality_report' = EmptyReport
    /\ UNCHANGED <<stageIn, outcome, result, error>>
    /\ UNCHANGED <<ruleVars, custVars, gateVars, runVars>>

Call ==
    /\ pc = "idle"
    /\ \E batch \in InputBatches :
        /\ raw' = batch
        /\ df' = batch
        /\ initial_count' = FrameLen(batch)
    /\ pc' = "remove_duplicates"
    /\ UNCHANGED <<quality_report, stageIn, outcome, result, error>>
    /\ UNCHANGED <<ruleVars, custVars, gateVars, runVars>>

\* stage 2 left out: the batch goes from _remove_duplicates to _validate_data_types
Step_remove_duplicates_SkipsNext ==
    /\ pc = "remove_duplicates"
    /\ IF "transaction_id" \notin df.cols THEN Raise("KeyError")
       ELSE Advance("validate_data_types", RemoveDuplicates(df))

Step_remove_duplicates ==
    /\ pc = "remove_duplicates"
    /\ IF "transaction_id" \notin df.cols THEN Raise("KeyError")
       ELSE Advance("handle_missing_values", RemoveDuplicates(df))

Step_handle_missing_values ==
    /\ pc = "handle_missing_values"
    /\ IF ~({"transaction_id", "customer_id", "amount", "category", "merchant_id"}
              \subseteq df.cols)
       THEN Raise("KeyError")
       ELSE Advance("validate_data_types", HandleMissingValues(df))

Step_validate_data_types ==
    /\ pc = "validate_data_types"
    /\ IF ~(RawCols \subseteq df.cols) THEN Raise("KeyError")
       ELSE \E ns \in NullAsStr : Advance("apply_business_rules", ValidateDataTypes(df, ns))

Step_apply_business_rules ==
    /\ pc = "apply_business_rules"
    /\ Advance("add_derived_fields", ApplyBusinessRules(df))

Step_add_derived_fields ==
    /\ pc = "add_derived_fields"
    /\ Advance("final_validation", AddDerivedFields(df))

\* the statistics stored before _final_validation has checked the batch
Step_final_validation_StoresFirst ==
    /\ pc = "final_validation"
    /\ IF FinalValidationError(df) # ""
       THEN /\ pc' = "raised"
            /\ outcome' = "raised"
            /\ error' = FinalValidationError(df)
            /\ quality_report' =
                  SetItem(quality_report, "transactions", ReportEntry(initial_count, df))
            /\ UNCHANGED <<raw, df, stageIn, initial_count, result>>
            /\ UNCHANGED <<ruleVars, custVars, gateVars, runVars>>
       ELSE Advance("report", df)

Step_final_validation ==
    /\ pc = "final_validation"
    /\ IF FinalValidationError(df) # "" THEN Raise(FinalValidationError(df))
       ELSE Advance("report", df)

Step_report ==
    /\ pc = "report"
    /\ quality_report' = SetItem(quality_report, "transactions", ReportEntry(initial_count, df))
    /\ result' = df
    /\ outcome' = "returned"
    /\ pc' = "returned"
    /\ UNCHANGED <<raw, df, stageIn, initial_count, error>>
    /\ UNCHANGED <<ruleVars, custVars, gateVars, runVars>>

\* transformer.validate_against_customers(t, c): the
\* KeyError of a frame without customer_id, or the batch returned.
ValidateStep(t, c) ==
    /\ transactions' = t
    /\ customers' = c
    /\ IF "customer_id" \notin c.cols \/ "customer_id" \notin t.cols
       THEN /\ pc' = "raised"
            /\ error' = "KeyError"
            /\ validated' = EmptyFrame
       ELSE /\ pc' = "validated"
            /\ error' = error
            /\ validated' = ValidateAgainstCustomers(t, c)
    /\ UNCHANGED <<quality_report, raw, df, stageIn, initial_count, outcome, result>>
    /\ UNCHANGED <<ruleVars, gateVars, runVars>>

\* ETLPipeline.run passes the batch transform_transactions returned, with the
\* customers it extracted, to validate_against_customers.
Step_validate_against_customers ==
    /\ pc = "returned"
    /\ ValidateStep(result, raw_customers)

\* The caller is done with the batches of the call that ended: only the
\* transformer instance, with its report, lives on to the next call.
Release ==
    /\ pc \in {"returned", "raised", "validated"}
    /\ pc' = "idle"
    /\ raw' = EmptyFrame
    /\ df' = EmptyFrame
    /\ stageIn' = EmptyFrame
    /\ initial_count' = 0
    /\ outcome' = "none"
    /\ result' = EmptyFrame
    /\ error' = ""
    /\ transactions' = EmptyFrame
    /\ customers' = EmptyFrame
    /\ validated' = EmptyFrame
    /\ UNCHANGED <<quality_report, ruleVars, gateVars, runVars>>

Next ==
    \/ Call
    \/ Step_remove_duplicates
    \/ Step_handle_missing_values
    \/ Step_validate_data_types
    \/ Step_apply_business_rules
    \/ Step_add_derived_fields
    \/ Step_final_validation
    \/ Step_report
    \/ Step_validate_against_customers
    \/ Release

Spec == Init /\ [][Next]_vars

-----------------------------------------------------------------------------
(* The five filters of _apply_business_rules, applied one at a time in an     *)
(* order chosen at the start, to a batch as stage 4 receives it               *)

\* The orders of the five rules
Orders == {p \in [1..5 -> 1..5] : \A i, j \in 1..5 : i # j => p[i] # p[j]}

\* Normalized rows on both sides of each rule
RuleRows ==
    {[BaseRow EXCEPT !.amount = a, !.status = s, !.transaction_date = t] :
        a \in {Num(0), Num(10050), Num(100000001)},
        s \in {Str(sCompleted), statusInvalid},
        t \in {WeekdayNoon, Ts(Now + 1), Ts(Now - TwoYears - 1)}}

\* Six rows: one clean, and one failing each of the five rules alone
rules_batch ==
    <<[BaseRow EXCEPT !.transaction_id = idTwo, !.amount = Num(0)],
      [BaseRow EXCEPT !.transaction_id = idThree, !.transaction_date = Ts(Now + 1)],
      BaseRow,
      [BaseRow EXCEPT !.transaction_id = Str(<<"T","X","N","4">>), !.amount = Num(100000001)],
      [BaseRow EXCEPT !.transaction_id = Str(<<"T","X","N","5">>), !.status = statusInvalid],
      [BaseRow EXCEPT !.transaction_id = Str(<<"T","X","N","6">>),
                      !.transaction_date = Ts(Now - TwoYears - 1)]>>

\* tests/test_transform.py test_apply_business_rules_removes_future_dates
future_dates_test ==
    Project({"transaction_id", "customer_id", "transaction_date", "amount", "status"},
            <<[BaseRow EXCEPT !.transaction_date = Ts(Now - 24)],
              [BaseRow EXCEPT !.transaction_id = idTwo, !.transaction_date = Ts(Now + 24)]>>)

Reversed(q) == [i \in 1..Len(q) |-> q[Len(q) + 1 - i]]

RuleBatches ==
    {Frame(RawCols, <<r>>) : r \in RuleRows} \cup
    {Frame(RawCols, rules_batch), Frame(RawCols, Reversed(rules_batch)), future_dates_test}

RulesInit ==
    /\ quality_report = EmptyReport
    /\ pc = "idle"
    /\ raw = EmptyFrame
    /\ stageIn \in RuleBatches
    /\ df = stageIn
    /\ initial_count = 0
    /\ outcome = "none"
    /\ result = EmptyFrame
    /\ error = ""
    /\ order \in Orders
    /\ applied = 0
    /\ transactions = EmptyFrame
    /\ customers = EmptyFrame
    /\ validated = EmptyFrame
    /\ thresholds = DefaultThresholds
    /\ quality_issues = <<>>
    /\ gpc = "idle"
    /\ gdf = EmptyFrame
    /\ dataset_name = ""
    /\ all_passed = TRUE
    /\ issues0 = <<>>
    /\ RunVarsInit

\* df = df[rule], for the next rule of the order
ApplyNextRule ==
    /\ applied < 5
    /\ df' = FilterBy(order[applied + 1], df)
    /\ applied' = applied + 1
    /\ UNCHANGED <<quality_report, pc, raw, stageIn, initial_count, outcome, result, error>>
    /\ UNCHANGED <<order, custVars, gateVars, runVars>>

RulesNext == ApplyNextRule

RulesSpec == RulesInit /\ [][RulesNext]_vars

-----------------------------------------------------------------------------
(* validate_against_customers called with batches and customers of its own *)

custTwo == Str(<<"C","U","S","T","2">>)
custNine == Str(<<"C","U","S","T","9">>)

CustomerCheckRows ==
    {[BaseRow EXCEPT !.customer_id = v] : v \in {custOne, custTwo, custLower, custNine, Null}}

\* Ten rows, customers CUST0 .. CUST9
ten_transactions ==
    [i \in 1..10 |->
        [BaseRow EXCEPT !.transaction_id = Str(<<"T","X","N", Digits[i]>>),
                        !.customer_id = Str(<<"C","U","S","T", Digits[i]>>)]]

CustomerFrame(ids) == Frame({"customer_id"}, [i \in 1..Len(ids) |-> [customer_id |-> ids[i]]])

\* Seven of the ten customers: CUST2, CUST5 and CUST8 are absent
seven_customers ==
    CustomerFrame([i \in 1..7 |-> Str(<<"C","U","S","T", Digits[<<1, 2, 4, 5, 7, 8, 10>>[i]]>>)])

TransactionArgs ==
    {Frame(RawCols, q) : q \in SeqsUpTo(CustomerCheckRows, MaxBatch)} \cup
    {Frame(RawCols, ten_transactions),
     Project(RawCols \ {"customer_id"}, <<BaseRow>>)}

CustomerArgs ==
    {CustomerFrame(<<>>), CustomerFrame(<<custOne>>), raw_customers,
     CustomerFrame(<<custTwo, custOne, custTwo>>), CustomerFrame(<<custLower>>),
     seven_customers, Frame({"name"}, <<[name |-> custOne]>>)}

Call_validate_against_customers ==
    /\ pc = "idle"
    /\ \E t \in TransactionArgs, c \in CustomerArgs : ValidateStep(t, c)

CustomersNext ==
    \/ Call_validate_against_customers
    \/ Release

CustomersSpec == Init /\ [][CustomersNext]_vars

-----------------------------------------------------------------------------
(* The six stage methods called one by one by a caller that holds the batches: *)
(* raw is the batch object the caller passed to the last stage, as the call    *)
(* left it, stageIn that batch as it was passed, df the batch returned.        *)

\* _validate_data_types assigns the two coerced columns to the df it was
\* passed, before its first df = df[...] makes a new frame
ValidateDataTypes_InPlace(d) == CoerceNumeric(CoerceDatetime(d))

StagesInit ==
    /\ quality_report = EmptyReport
    /\ pc = "remove_duplicates"
    /\ df \in InputBatches
    /\ raw = df
    /\ stageIn = df
    /\ initial_count = 0
    /\ outcome = "none"
    /\ result = EmptyFrame
    /\ error = ""
    /\ order = <<1, 2, 3, 4, 5>>
    /\ applied = 0
    /\ transactions = EmptyFrame
    /\ customers = EmptyFrame
    /\ validated = EmptyFrame
    /\ thresholds = DefaultThresholds
    /\ quality_issues = <<>>
    /\ gpc = "idle"
    /\ gdf = EmptyFrame
    /\ dataset_name = ""
    /\ all_passed = TRUE
    /\ issues0 = <<>>
    /\ RunVarsInit

\* The stage was passed df and raised, leaving the object it was passed as
\* `passed`: the caller has no batch to go on with
StageRaised(e, passed) ==
    /\ pc' = "raised"
    /\ error' = e
    /\ stageIn' = df
    /\ raw' = passed
    /\ df' = EmptyFrame
    /\ UNCHANGED <<quality_report, initial_count, outcome, result>>
    /\ UNCHANGED <<ruleVars, custVars, gateVars, runVars>>

\* The stage was passed df and returned `returned`, leaving the object it was
\* passed as `passed`
StageReturned(next, passed, returned) ==
    /\ pc' = next
    /\ stageIn' = df
    /\ raw' = passed
    /\ df' = returned
    /\ UNCHANGED <<quality_report, initial_count, outcome, result, error>>
    /\ UNCHANGED <<ruleVars, custVars, gateVars, runVars>>

Direct_remove_duplicates ==
    /\ pc = "remove_duplicates"
    /\ IF "transaction_id" \notin df.cols THEN StageRaised("KeyError", df)
       ELSE StageReturned("handle_missing_values", df, RemoveDuplicates(df))

Direct_handle_missing_values ==
    /\ pc = "handle_missing_values"
    /\ IF ~({"transaction_id", "customer_id", "amount", "category", "merchant_id"}
              \subseteq df.cols)
       THEN StageRaised("KeyError", df)
       ELSE StageReturned("validate_data_types", df, HandleMissingValues(df))

Direct_validate_data_types ==
    /\ pc = "validate_data_types"
    /\ IF "transaction_date" \notin df.cols THEN StageRaised("KeyError", df)
       ELSE IF "amount" \notin df.cols THEN StageRaised("KeyError", CoerceDatetime(df))
       ELSE IF ~(RawCols \subseteq df.cols)
            THEN StageRaised("KeyError", ValidateDataTypes_InPlace(df))
       ELSE \E ns \in NullAsStr :
               StageReturned("apply_business_rules", ValidateDataTypes_InPlace(df),
                             ValidateDataTypes(df, ns))

Direct_apply_business_rules ==
    /\ pc = "apply_business_rules"
    /\ StageReturned("add_derived_fields", df, ApplyBusinessRules(df))

\* _add_derived_fields assigns its columns to the df it was passed and
\* returns that same object
Direct_add_derived_fields ==
    /\ pc = "add_derived_fields"
    /\ StageReturned("final_validation", AddDerivedFields(df), AddDerivedFields(df))

Direct_final_validation ==
    /\ pc = "final_validation"
    /\ IF FinalValidationError(df) # "" THEN StageRaised(FinalValidationError(df), df)
       ELSE StageReturned("returned", df, df)

StagesNext ==
    \/ Direct_remove_duplicates
    \/ Direct_handle_missing_values
    \/ Direct_validate_data_types
    \/ Direct_apply_business_rules
    \/ Direct_add_derived_fields
    \/ Direct_final_validation

StagesSpec == StagesInit /\ [][StagesNext]_vars

-----------------------------------------------------------------------------
(* DataQualityChecker: construction and run_quality_checks, one action per    *)
(* check                                                                      *)

\* A call of run_quality_checks may start while the instance holds fewer
\* issues than this
MaxIssues == 2

\* f'{i:03d}'
Digits3(i) ==
    <<Digits[((i \div 100) % 10) + 1], Digits[((i \div 10) % 10) + 1], Digits[(i % 10) + 1]>>

GateId(i) == Str(<<"T","X","N">> \o Digits3(i))
GateCustomer(i) == Str(<<"C","U","S","T">> \o Digits3(i))

GateCols == {"transaction_id", "customer_id", "amount"}

\* n rows TXN000.., the ids of the rows in `dups` replaced by TXN000 and the
\* customers of the rows in `nulls` missing
GateFrame(n, dups, nulls) ==
    Frame(GateCols,
          [i \in 1..n |->
              [transaction_id |-> IF i \in dups THEN GateId(0) ELSE GateId(i - 1),
               customer_id |-> IF i \in nulls THEN Null ELSE GateCustomer(i - 1),
               amount |-> Num(10000)]])

\* tests/test_transform.py: good_data, bad_data_few_rows, data_with_nulls
good_data == GateFrame(200, {}, {})
bad_data_few_rows == GateFrame(2, {}, {})
data_with_nulls == GateFrame(200, {}, 1..100)

fifty_clean == GateFrame(50, {}, {})
\* 100 rows: exactly the default minimum, 1 duplicate in 100 ids, 15 nulls in 300 cells
hundred_at_limits == GateFrame(100, {2}, 1..15)
hundred_over_limits == GateFrame(100, {2, 3}, 1..16)

\* config.py QUALITY_THRESHOLDS
QUALITY_THRESHOLDS ==
    [max_null_percentage |-> Fraction(5, 100),
     min_row_count |-> 100,
     duplicate_threshold |-> Fraction(1, 100)]

ThresholdArgs ==
    {NoThresholds,
     GivenThresholds([k \in {} |-> 0]),
     GivenThresholds([max_null_percentage |-> Fraction(1, 12),
                      min_row_count |-> 2,
                      max_duplicate_percentage |-> Fraction(1, 4)]),
     GivenThresholds([min_row_count |-> 2]),
     GivenThresholds(QUALITY_THRESHOLDS)}

\* The (df, dataset_name) pairs passed to run_quality_checks
GateCalls ==
    {[df |-> d, name |-> "test_dataset"] :
        d \in {good_data, bad_data_few_rows, data_with_nulls}} \cup
    {[df |-> d, name |-> "transactions"] :
        d \in {fifty_clean, hundred_at_limits, hundred_over_limits,
               GateFrame(0, {}, {}), GateFrame(1, {}, {}), GateFrame(3, {2, 3}, {1, 3}),
               GateFrame(4, {2}, {1}), GateFrame(4, {2, 3}, {1, 2}),
               Project({"customer_id", "amount"}, GateFrame(4, {}, {}).rows),
               Project({"customer_id"},
                       <<[customer_id |-> custOne], [customer_id |-> custOne]>>)}}

\* self.thresholds[key] of a missing key: the KeyError leaves run_quality_checks
GateRaise ==
    /\ gpc' = "raised"
    /\ UNCHANGED <<thresholds, quality_issues, gdf, dataset_name, all_passed, issues0>>

\* A check returned True
GatePass(next) ==
    /\ gpc' = next
    /\ UNCHANGED <<thresholds, quality_issues, gdf, dataset_name, all_passed, issues0>>

\* A check appended its issue and returned False: all_passed = False
GateFail(next, issue) ==
    /\ gpc' = next
    /\ quality_issues' = Append(quality_issues, issue)
    /\ all_passed' = FALSE
    /\ UNCHANGED <<thresholds, gdf, dataset_name, issues0>>

transformVars == <<quality_report, pc, raw, df, stageIn, initial_count, outcome, result, error>>

\* DataQualityChecker(thresholds)
NewChecker ==
    /\ gpc \in {"idle", "returned", "raised"}
    /\ \E arg \in ThresholdArgs : thresholds' = NewThresholds(arg)
    /\ quality_issues' = <<>>
    /\ gpc' = "idle"
    /\ gdf' = EmptyFrame
    /\ dataset_name' = ""
    /\ all_passed' = TRUE
    /\ issues0' = <<>>
    /\ UNCHANGED <<transformVars, ruleVars, custVars, runVars>>

\* a call that starts by emptying the issue list
Call_run_quality_checks_ClearsIssues ==
    /\ gpc \in {"idle", "returned", "raised"}
    /\ Len(quality_issues) < MaxIssues
    /\ \E call \in GateCalls :
          /\ gdf' = call.df
          /\ dataset_name' = call.name
    /\ all_passed' = TRUE
    /\ issues0' = quality_issues
    /\ gpc' = "row_count"
    /\ quality_issues' = <<>>
    /\ UNCHANGED thresholds
    /\ UNCHANGED <<transformVars, ruleVars, custVars, runVars>>

Call_run_quality_checks ==
    /\ gpc \in {"idle", "returned", "raised"}
    /\ Len(quality_issues) < MaxIssues
    /\ \E call \in GateCalls :
          /\ gdf' = call.df
          /\ dataset_name' = call.name
    /\ all_passed' = TRUE
    /\ issues0' = quality_issues
    /\ gpc' = "row_count"
    /\ UNCHANGED <<thresholds, quality_issues>>
    /\ UNCHANGED <<transformVars, ruleVars, custVars, runVars>>

\* a failing row count ends the call at once
Check_row_count_ShortCircuit ==
    /\ gpc = "row_count"
    /\ IF "min_row_count" \notin DOMAIN thresholds THEN GateRaise
       ELSE IF RowCountFails(gdf, thresholds)
            THEN GateFail("return", RowCountIssue(dataset_name, gdf, thresholds))
       ELSE GatePass("null_percentage")
    /\ UNCHANGED <<transformVars, ruleVars, custVars, runVars>>

Check_row_count ==
    /\ gpc = "row_count"
    /\ IF "min_row_count" \notin DOMAIN thresholds THEN GateRaise
       ELSE IF RowCountFails(gdf, thresholds)
            THEN GateFail("null_percentage", RowCountIssue(dataset_name, gdf, thresholds))
       ELSE GatePass("null_percentage")
    /\ UNCHANGED <<transformVars, ruleVars, custVars, runVars>>

Check_null_percentage ==
    /\ gpc = "null_percentage"
    /\ IF "max_null_percentage" \notin DOMAIN thresholds THEN GateRaise
       ELSE IF NullPercentageFails(gdf, thresholds)
            THEN GateFail("duplicates", NullPercentageIssue(dataset_name, gdf, thresholds))
       ELSE GatePass("duplicates")
    /\ UNCHANGED <<transformVars, ruleVars, custVars, runVars>>

Check_duplicates ==
    /\ gpc = "duplicates"
    /\ IF "transaction_id" \notin gdf.cols THEN GatePass("data_types")
       ELSE IF "max_duplicate_percentage" \notin DOMAIN thresholds THEN GateRaise
       ELSE IF DuplicatesFail(gdf, thresholds)
            THEN GateFail("data_types", DuplicatesIssue(dataset_name, gdf))
       ELSE GatePass("data_types")
    /\ UNCHANGED <<transformVars, ruleVars, custVars, runVars>>

\* _check_data_types returns True
Check_data_types ==
    /\ gpc = "data_types"
    /\ GatePass("return")
    /\ UNCHANGED <<transformVars, ruleVars, custVars, runVars>>

\* return all_passed
Return_run_quality_checks ==
    /\ gpc = "return"
    /\ GatePass("returned")
    /\ UNCHANGED <<transformVars, ruleVars, custVars, runVars>>

QualityNext ==
    \/ NewChecker
    \/ Call_run_quality_checks
    \/ Check_row_count
    \/ Check_null_percentage
    \/ Check_duplicates
    \/ Check_data_types
    \/ Return_run_quality_checks

QualitySpec == Init /\ [][QualityNext]_vars

-----------------------------------------------------------------------------
(* ETLPipeline.run of src/src/pipeline.py, one action per operation it calls: *)
(* the calls of the transformer and the checker are the whole calls           *)

\* A run may start while the audit table holds fewer rows than this
MaxRuns == 2

\* Stages 1 to 5 of transform_transactions
StagesOneToFive(d, ns) ==
    AddDerivedFields(ApplyBusinessRules(ValidateDataTypes(
        HandleMissingValues(RemoveDuplicates(d)), ns)))

\* The exception transform_transactions raises on d, "" if it returns
TransformError(d, ns) ==
    IF ~(RawCols \subseteq d.cols) THEN "KeyError"
    ELSE FinalValidationError(StagesOneToFive(d, ns))

\* What astype(str) can make of the missing values of d: a batch that holds
\* none has none to render, whatever the pandas build
NullRenderings(d) ==
    IF \E i \in 1..Len(d.rows) : \E c \in d.cols : IsNull(d.rows[i][c])
    THEN NullAsStr
    ELSE {Null}

\* The issues run_quality_checks appends: those of its failing checks
ChecksIssues(name, d, th) ==
    (IF RowCountFails(d, th) THEN <<RowCountIssue(name, d, th)>> ELSE <<>>)
    \o (IF NullPercentageFails(d, th) THEN <<NullPercentageIssue(name, d, th)>> ELSE <<>>)
    \o (IF DuplicatesFail(d, th) THEN <<DuplicatesIssue(name, d)>> ELSE <<>>)

\* 100 clean rows TXN001 .. TXN100 of customer CUST1
hundred_transactions ==
    Frame(RawCols, [i \in 1..100 |-> [BaseRow EXCEPT !.transaction_id = GateId(i)]])

\* One row of amount 12000 and status failed: a risk score above 100
risky_row ==
    <<[BaseRow EXCEPT !.amount = Num(1200000), !.status = Str(sFailed)]>>

\* Six rows: the five of scenario_batch and one of a customer that
\* extract_customers did not return
orphan_batch ==
    scenario_batch \o
    <<[BaseRow EXCEPT !.transaction_id = Str(<<"T","X","N","5">>), !.customer_id = custNine]>>

\* The batches extract_transactions returns: 100 clean rows, six rows of
\* which three are removed, one row that fails final validation, no row
ExtractedBatches ==
    {hundred_transactions, Frame(RawCols, orphan_batch), Frame(RawCols, risky_row),
     Frame(RawCols, <<>>)}

\* UPDATE etl_audit_log SET status, error_message WHERE run_id = id
AuditUpdated(log, id, status, message) ==
    IF id \in DOMAIN log
    THEN [log EXCEPT ![id] = [status |-> status, error_message |-> message]]
    ELSE log

\* What no step of run writes: the positions and locals of calls made one
\* stage or one check at a time, and the thresholds
runKeeps == <<pc, df, stageIn, initial_count, outcome, error, order, applied,
              thresholds, gpc, issues0>>

\* An exception raised inside the try block: control goes to the except clause
RunRaise(e) ==
    /\ run_pc' = "except"
    /\ exc' = e

\* pipeline.run(): the locals of an earlier run are gone
Run ==
    /\ run_pc \in {"idle", "returned", "raised"}
    /\ Len(etl_audit_log) < MaxRuns
    /\ run_pc' = "start_audit_log"
    /\ calls' = <<>>
    /\ exc' = ""
    /\ loaded' = EmptyFrame
    /\ raw' = EmptyFrame
    /\ result' = EmptyFrame
    /\ transactions' = EmptyFrame
    /\ customers' = EmptyFrame
    /\ validated' = EmptyFrame
    /\ gdf' = EmptyFrame
    /\ dataset_name' = ""
    /\ all_passed' = TRUE
    /\ UNCHANGED <<run_id, loader_run_id, etl_audit_log, quality_report, quality_issues>>
    /\ UNCHANGED runKeeps

\* self.run_id = self.loader.start_audit_log(...): the INSERT gives the row
\* its run_id, or the statement fails and start_audit_log raises
Run_start_audit_log ==
    /\ run_pc = "start_audit_log"
    /\ calls' = Append(calls, "start_audit_log")
    /\ \/ /\ etl_audit_log' =
                Append(etl_audit_log, [status |-> "running", error_message |-> ""])
          /\ loader_run_id' = Len(etl_audit_log) + 1
          /\ run_id' = Len(etl_audit_log) + 1
          /\ run_pc' = "extract"
          /\ exc' = exc
       \/ /\ RunRaise("start_audit_log failed")
          /\ UNCHANGED <<etl_audit_log, loader_run_id, run_id>>
    /\ UNCHANGED <<loaded, quality_report, raw, result, custVars, quality_issues, gdf,
                   dataset_name, all_passed>>
    /\ UNCHANGED runKeeps

\* raw_customers = extract_customers(...); raw_transactions = extract_transactions(...)
Run_extract ==
    /\ run_pc = "extract"
    /\ calls' = calls \o <<"extract_customers", "extract_transactions">>
    /\ \/ /\ raw' \in ExtractedBatches
          /\ run_pc' = "transform"
          /\ exc' = exc
       \/ /\ RunRaise("extract failed")
          /\ raw' = raw
    /\ UNCHANGED <<run_id, loader_run_id, etl_audit_log, loaded, quality_report, result,
                   custVars, quality_issues, gdf, dataset_name, all_passed>>
    /\ UNCHANGED runKeeps

\* clean_transactions = self.transformer.transform_transactions(raw_transactions)
Run_transform ==
    /\ run_pc = "transform"
    /\ calls' = Append(calls, "transform_transactions")
    /\ \E ns \in NullRenderings(raw) :
          IF TransformError(raw, ns) # ""
          THEN /\ RunRaise(TransformError(raw, ns))
               /\ UNCHANGED <<quality_report, result>>
          ELSE /\ result' = StagesOneToFive(raw, ns)
               /\ quality_report' =
                     SetItem(quality_report, "transactions",
                             ReportEntry(FrameLen(raw), StagesOneToFive(raw, ns)))
               /\ run_pc' = "validate_against_customers"
               /\ exc' = exc
    /\ UNCHANGED <<run_id, loader_run_id, etl_audit_log, loaded, raw, custVars,
                   quality_issues, gdf, dataset_name, all_passed>>
    /\ UNCHANGED runKeeps

\* clean_transactions = self.transformer.validate_against_customers(
\*     clean_transactions, raw_customers)
Run_validate_against_customers ==
    /\ run_pc = "validate_against_customers"
    /\ calls' = Append(calls, "validate_against_customers")
    /\ transactions' = result
    /\ customers' = raw_customers
    /\ IF "customer_id" \notin result.cols
       THEN /\ RunRaise("KeyError")
            /\ validated' = validated
       ELSE /\ validated' = ValidateAgainstCustomers(result, raw_customers)
            /\ run_pc' = "run_quality_checks"
            /\ exc' = exc
    /\ UNCHANGED <<run_id, loader_run_id, etl_audit_log, loaded, quality_report, raw,
                   result, quality_issues, gdf, dataset_name, all_passed>>
    /\ UNCHANGED runKeeps

\* a failed gate stops the run
Run_quality_checks_Halts ==
    /\ run_pc = "run_quality_checks"
    /\ calls' = Append(calls, "run_quality_checks")
    /\ gdf' = validated
    /\ dataset_name' = "transactions"
    /\ quality_issues' = quality_issues \o ChecksIssues("transactions", validated, thresholds)
    /\ all_passed' = (ChecksIssues("transactions", validated, thresholds) = <<>>)
    /\ IF ChecksIssues("transactions", validated, thresholds) = <<>>
       THEN run_pc' = "load_customers" /\ exc' = exc
       ELSE RunRaise("Quality checks failed")
    /\ UNCHANGED <<run_id, loader_run_id, etl_audit_log, loaded, quality_report, raw,
                   result, custVars>>
    /\ UNCHANGED runKeeps

\* quality_passed = self.quality_checker.run_quality_checks(clean_transactions,
\* "transactions"), the checker holding the default thresholds; a False is
\* logged and the run goes on
Run_quality_checks ==
    /\ run_pc = "run_quality_checks"
    /\ calls' = Append(calls, "run_quality_checks")
    /\ gdf' = validated
    /\ dataset_name' = "transactions"
    /\ quality_issues' = quality_issues \o ChecksIssues("transactions", validated, thresholds)
    /\ all_passed' = (ChecksIssues("transactions", validated, thresholds) = <<>>)
    /\ run_pc' = "load_customers"
    /\ UNCHANGED <<run_id, loader_run_id, etl_audit_log, loaded, exc, quality_report, raw,
                   result, custVars>>
    /\ UNCHANGED runKeeps

\* customers_loaded = self.loader.load_customers(raw_customers)
Run_load_customers ==
    /\ run_pc = "load_customers"
    /\ calls' = Append(calls, "load_customers")
    /\ \/ run_pc' = "load_transactions" /\ exc' = exc
       \/ RunRaise("load_customers failed")
    /\ UNCHANGED <<run_id, loader_run_id, etl_audit_log, loaded, quality_report, raw,
                   result, custVars, quality_issues, gdf, dataset_name, all_passed>>
    /\ UNCHANGED runKeeps

\* the batch transform_transactions returned is loaded, not the validated one
Run_load_transactions_Unvalidated ==
    /\ run_pc = "load_transactions"
    /\ calls' = Append(calls, "load_transactions")
    /\ loaded' = result
    /\ \/ run_pc' = "update_audit_log" /\ exc' = exc
       \/ RunRaise("load_transactions failed")
    /\ UNCHANGED <<run_id, loader_run_id, etl_audit_log, quality_report, raw,
                   result, custVars, quality_issues, gdf, dataset_name, all_passed>>
    /\ UNCHANGED runKeeps

\* transactions_loaded = self.loader.load_transactions(clean_transactions)
Run_load_transactions ==
    /\ run_pc = "load_transactions"
    /\ calls' = Append(calls, "load_transactions")
    /\ loaded' = validated
    /\ \/ run_pc' = "update_audit_log" /\ exc' = exc
       \/ RunRaise("load_transactions failed")
    /\ UNCHANGED <<run_id, loader_run_id, etl_audit_log, quality_report, raw,
                   result, custVars, quality_issues, gdf, dataset_name, all_passed>>
    /\ UNCHANGED runKeeps

\* self.loader.update_audit_log(status='success', ...): the row of the
\* loader's run_id is updated, or the UPDATE fails and the failure is logged
Run_update_audit_log ==
    /\ run_pc = "update_audit_log"
    /\ calls' = Append(calls, "update_audit_log success")
    /\ etl_audit_log' \in {etl_audit_log,
                           AuditUpdated(etl_audit_log, loader_run_id, "success", "")}
    /\ run_pc' = "summary"
    /\ UNCHANGED <<run_id, loader_run_id, loaded, exc, quality_report, raw,
                   result, custVars, quality_issues, gdf, dataset_name, all_passed>>
    /\ UNCHANGED runKeeps

\* The final summary: transactions_loaded / len(raw_transactions) divides by
\* zero for an empty raw batch; otherwise return True
Run_summary ==
    /\ run_pc = "summary"
    /\ IF FrameLen(raw) = 0 THEN RunRaise("division by zero")
       ELSE run_pc' = "finally" /\ exc' = exc
    /\ UNCHANGED <<run_id, loader_run_id, etl_audit_log, calls, loaded, quality_report, raw,
                   result, custVars, quality_issues, gdf, dataset_name, all_passed>>
    /\ UNCHANGED runKeeps

\* except Exception as e: if self.run_id: update_audit_log(status='failed',
\* error_message=str(e)); raise
Run_except ==
    /\ run_pc = "except"
    /\ IF run_id # 0
       THEN /\ calls' = Append(calls, "update_audit_log failed")
            /\ etl_audit_log' \in {etl_audit_log,
                                   AuditUpdated(etl_audit_log, loader_run_id, "failed", exc)}
       ELSE UNCHANGED <<calls, etl_audit_log>>
    /\ run_pc' = "finally"
    /\ UNCHANGED <<run_id, loader_run_id, loaded, exc, quality_report, raw,
                   result, custVars, quality_issues, gdf, dataset_name, all_passed>>
    /\ UNCHANGED runKeeps

\* finally: self.loader.close(); then True is returned or the exception
\* leaves run
Run_finally ==
    /\ run_pc = "finally"
    /\ calls' = Append(calls, "close")
    /\ run_pc' = IF exc = "" THEN "returned" ELSE "raised"
    /\ UNCHANGED <<run_id, loader_run_id, etl_audit_log, loaded, exc, quality_report, raw,
                   result, custVars, quality_issues, gdf, dataset_name, all_passed>>
    /\ UNCHANGED runKeeps

PipelineNext ==
    \/ Run
    \/ Run_start_audit_log
    \/ Run_extract
    \/ Run_transform
    \/ Run_validate_against_customers
    \/ Run_quality_checks
    \/ Run_load_customers
    \/ Run_load_transactions
    \/ Run_update_audit_log
    \/ Run_summary
    \/ Run_except
    \/ Run_finally

PipelineSpec == Init /\ [][PipelineNext]_vars

-----------------------------------------------------------------------------
(* Properties *)

Rows(d) == 1..Len(d.rows)

\* C1: the transaction_id values of a returned batch, as they stand in the
\* output (trimmed and upper-cased), are pairwise distinct.
C1_OutputIdsDistinct ==
    pc = "returned" =>
        \A i, j \in Rows(result) :
            i # j => result.rows[i].transaction_id # result.rows[j].transaction_id

\* The risk level the fixed buckets give a score, the top bucket open-ended
BucketOf(score) ==
    IF score <= 20 THEN Str(sLow)
    ELSE IF score <= 50 THEN Str(sMedium)
    ELSE IF score <= 80 THEN Str(sHigh)
    ELSE Str(sCritical)

\* C2: after the derive-fields stage every row's risk_level is the bucket of its
\* risk_score, every score above 80 (also above 100) being "critical", and a
\* call whose batch holds a row with a score above 100 returns it.
C2_ScoresAbove100Critical ==
    /\ pc \in {"final_validation", "report", "returned"} =>
          \A i \in Rows(df) : df.rows[i].risk_level = BucketOf(df.rows[i].risk_score.n)
    /\ pc = "raised" /\ "risk_score" \in df.cols =>
          \A i \in Rows(df) : df.rows[i].risk_score.n <= 100

\* C3: a call on a batch that has all eight raw columns does not raise.
C3_NoRaiseOnFullSchema ==
    RawCols \subseteq raw.cols => pc # "raised"

NoNullIn(d, fields) ==
    /\ fields \subseteq d.cols
    /\ \A i \in Rows(d) : \A f \in fields : NotNa(d.rows[i][f])

\* C4: a returned batch has the ten required fields with no null in any of
\* them; a batch that lacks a required field or holds a null in one never gets
\* past final validation, and the call that raises returns no batch.
C4_FinalValidationAllOrNothing ==
    /\ pc = "returned" => NoNullIn(result, required_fields)
    /\ pc \in {"report", "returned"} => NoNullIn(df, required_fields)
    /\ pc \in {"report", "returned"} => RawCols \subseteq raw.cols
    /\ pc = "raised" => result = EmptyFrame /\ outcome = "raised"

\* A call raised on a null although one of its rows had no null at all: a
\* partial output was possible and is not given.
C4_Witness ==
    /\ pc = "raised"
    /\ error = "ValueError: Critical fields contain null values"
    /\ \E i \in Rows(df) : \A f \in required_fields : NotNa(df.rows[i][f])
    /\ result = EmptyFrame

\* C5: every row of a returned batch has 0 < amount <= 1,000,000 and
\* risk_score >= 0.
C5_RangeInvariant ==
    pc = "returned" =>
        \A i \in Rows(result) :
            /\ result.rows[i].amount.k = "num"
            /\ 0 < result.rows[i].amount.n
            /\ result.rows[i].amount.n <= 1000000 * 100
            /\ result.rows[i].risk_score.k = "num"
            /\ result.rows[i].risk_score.n >= 0

\* A returned batch holds a row at the upper limit, 1,000,000.00.
C5_Witness ==
    /\ pc = "returned"
    /\ \E i \in Rows(result) : result.rows[i].amount = Num(1000000 * 100)

-----------------------------------------------------------------------------
(* Stage 1 and the whole call *)

\* The index of the first row of `rows` whose transaction_id is t
FirstIndex(rows, t) ==
    CHOOSE i \in 1..Len(rows) :
        /\ rows[i].transaction_id = t
        /\ \A j \in 1..(i - 1) : rows[j].transaction_id # t

\* C6: deduplicate keeps, for each distinct transaction_id of its input, exactly
\* the first row with that id, unchanged, and the kept rows are in input order.
C6_DedupKeepsFirst ==
    pc = "handle_missing_values" =>
        LET inp == stageIn.rows
            out == df.rows
            ids == {inp[i].transaction_id : i \in 1..Len(inp)}
        IN  /\ df.cols = stageIn.cols
            /\ Len(out) = Cardinality(ids)
            /\ \A k \in 1..Len(out) :
                  /\ out[k].transaction_id \in ids
                  /\ out[k] = inp[FirstIndex(inp, out[k].transaction_id)]
            /\ \A k, l \in 1..Len(out) :
                  k < l => FirstIndex(inp, out[k].transaction_id)
                             < FirstIndex(inp, out[l].transaction_id)

\* Deduplicate dropped a later row that differs from the kept row of its id,
\* and kept rows on both sides of it.
C6_Witness ==
    /\ pc = "handle_missing_values"
    /\ \E i, j \in Rows(stageIn) :
          /\ i < j /\ j < Len(stageIn.rows)
          /\ stageIn.rows[i].transaction_id = stageIn.rows[j].transaction_id
          /\ stageIn.rows[i] # stageIn.rows[j]
    /\ Len(df.rows) >= 3

\* Row i of `rows` is clean and unique, in the terms of the raw input.
CleanRow(rows, i) ==
    LET r == rows[i]
    IN  /\ \A j \in 1..(i - 1) : rows[j].transaction_id # r.transaction_id
        /\ NotNa(r.transaction_id) /\ NotNa(r.customer_id) /\ NotNa(r.amount)
        /\ NotNa(ToDatetime(r.transaction_date))
        /\ NotNa(ToNumeric(r.amount))
        /\ ToNumeric(r.amount).n > 0
        /\ ToNumeric(r.amount).n <= 1000000 * 100
        /\ r.status.k = "str" /\ StrLower(StrStrip(r.status.s)) \in valid_statuses
        /\ r.transaction_date.n <= Now
        /\ r.transaction_date.n >= Now - TwoYears

\* C7: a returned batch holds exactly the clean, unique rows of the input, in
\* input order (each in its normalized form); the five-row batches with one
\* duplicate id, one null customer_id and one negative amount give two rows.
C7_OutputIsCleanUniqueRows ==
    pc = "returned" =>
        LET kept == TakeRows(raw.rows, {i \in Rows(raw) : CleanRow(raw.rows, i)}, 1)
        IN  /\ Len(result.rows) = Len(kept)
            /\ \A k \in 1..Len(kept) :
                  /\ result.rows[k].transaction_id = StripUpper(kept[k].transaction_id)
                  /\ result.rows[k].customer_id = StripUpper(kept[k].customer_id)
                  /\ result.rows[k].transaction_date = kept[k].transaction_date
                  /\ result.rows[k].amount = ToNumeric(kept[k].amount)
                  /\ result.rows[k].status = StripLower(kept[k].status)
            /\ raw.rows \in {scenario_batch, sample_dirty_data} => Len(result.rows) = 2

\* The call on the five-row scenario batch returned its two clean rows.
C7_Witness ==
    /\ pc = "returned"
    /\ raw.rows = scenario_batch
    /\ Len(result.rows) = 2
    /\ result.rows[1].transaction_id = idUpper
    /\ result.rows[2].transaction_id = idTwo

\* A later duplicate was removed although the first row of its id was itself
\* removed by a later stage: nothing of that id is returned.
C7_DuplicateOfRemovedRow ==
    /\ pc = "returned"
    /\ Len(raw.rows) = 2
    /\ raw.rows[1].transaction_id = raw.rows[2].transaction_id
    /\ IsNull(raw.rows[1].customer_id)
    /\ NotNa(raw.rows[2].customer_id)
    /\ Len(result.rows) = 0

-----------------------------------------------------------------------------
(* The quality report *)

\* C8: the report entry of a successful call has initial_records = rows of the
\* input, final_records = rows of the returned batch, records_removed their
\* difference, and removal_percentage = records_removed / initial_records * 100,
\* or 0 when initial_records is 0.
C8_ReportConsistency ==
    pc = "returned" =>
        /\ "transactions" \in DOMAIN quality_report
        /\ LET e == quality_report["transactions"]
           IN  /\ e.initial_records = Len(raw.rows)
               /\ e.final_records = Len(result.rows)
               /\ e.records_removed = e.initial_records - e.final_records
               /\ e.initial_records > 0 =>
                     /\ e.removal_percentage.den # 0
                     /\ e.removal_percentage.num * e.initial_records
                          = e.records_removed * 100 * e.removal_percentage.den
               /\ e.initial_records = 0 => e.removal_percentage = Zero

\* The scenario call reported 5 initial, 2 final, 3 removed, 60 percent.
C8_Witness ==
    /\ pc = "returned"
    /\ raw.rows = scenario_batch
    /\ quality_report["transactions"].initial_records = 5
    /\ quality_report["transactions"].final_records = 2
    /\ quality_report["transactions"].records_removed = 3
    /\ quality_report["transactions"].removal_percentage = [num |-> 300, den |-> 5]

\* A call on an empty batch returned and reported 0 percent.
C8_EmptyInputReported ==
    /\ pc = "returned"
    /\ Len(raw.rows) = 0
    /\ quality_report["transactions"].removal_percentage = Zero

\* C9: the report starts empty and is never reset: it changes only when a call
\* returns, and then the entry of that call's dataset name is set to the
\* statistics of that call while every other entry stays as it was; it holds
\* one entry per dataset name processed.
C9_ReportAccumulates ==
    /\ quality_report = EmptyReport
    /\ [][quality_report' # quality_report =>
            /\ pc = "report" /\ pc' = "returned"
            /\ DOMAIN quality_report' = (DOMAIN quality_report) \cup {"transactions"}
            /\ quality_report'["transactions"].initial_records = Len(raw.rows)
            /\ quality_report'["transactions"].final_records = Len(result'.rows)
            /\ \A n \in (DOMAIN quality_report) \ {"transactions"} :
                  quality_report'[n] = quality_report[n]]_vars
    /\ [](\/ quality_report = EmptyReport
          \/ DOMAIN quality_report = {"transactions"})

\* A call is about to overwrite the entry an earlier call of the same instance
\* left, with different statistics.
C9_Witness ==
    /\ pc = "report"
    /\ quality_report # EmptyReport
    /\ quality_report["transactions"].initial_records # initial_count
    /\ quality_report["transactions"].final_records # FrameLen(df)

-----------------------------------------------------------------------------
(* Stage 2 *)

\* C10: handle-missing-values drops exactly the rows with a null
\* transaction_id, customer_id or amount; a row with a null category or
\* merchant_id is kept, the null replaced by one fixed non-null sentinel per
\* column, and every other field of a kept row is unchanged.
C10_MissingValues ==
    pc = "validate_data_types" =>
        LET inp == stageIn.rows
            out == df.rows
            kept == TakeRows(inp, {i \in 1..Len(inp) :
                        /\ NotNa(inp[i].transaction_id)
                        /\ NotNa(inp[i].customer_id)
                        /\ NotNa(inp[i].amount)}, 1)
            filled(col) == {out[k][col] : k \in {x \in 1..Len(kept) : IsNull(kept[x][col])}}
        IN  /\ Len(out) = Len(kept)
            /\ df.cols = stageIn.cols
            /\ \A k \in 1..Len(kept) :
                  /\ \A c \in stageIn.cols \ {"category", "merchant_id"} :
                        out[k][c] = kept[k][c]
                  /\ \A c \in {"category", "merchant_id"} :
                        /\ NotNa(out[k][c])
                        /\ NotNa(kept[k][c]) => out[k][c] = kept[k][c]
            /\ \A c \in {"category", "merchant_id"} :
                  /\ Cardinality(filled(c)) <= 1
                  /\ \A v \in filled(c) : v.k = "str" /\ v.s # <<>>

\* The stage kept a row that came in with a null category.
C10_Witness ==
    /\ pc = "validate_data_types"
    /\ \E i \in Rows(stageIn) :
          /\ IsNull(stageIn.rows[i].category)
          /\ NotNa(stageIn.rows[i].transaction_id)
    /\ Len(df.rows) = Len(stageIn.rows)
    /\ Len(df.rows) >= 1
    /\ \A k \in Rows(df) : NotNa(df.rows[k].category)

-----------------------------------------------------------------------------
(* Sentinels, normalization, rules and derived fields *)

\* C11: a row whose merchant_id is null on input gets the sentinel "unknown"
\* for merchant_id, the word used for a null category, and "UNKNOWN" in the
\* returned batch.
C11_MerchantSentinelUnknown ==
    /\ pc = "validate_data_types" /\ Len(df.rows) = Len(stageIn.rows) =>
          \A i \in Rows(df) :
              IsNull(stageIn.rows[i].merchant_id) => df.rows[i].merchant_id = Str(sUnknown)
    /\ pc = "returned" /\ Len(result.rows) = Len(raw.rows) =>
          \A i \in Rows(result) :
              IsNull(raw.rows[i].merchant_id) =>
                  result.rows[i].merchant_id = Str(StrUpper(sUnknown))

IsNormalized(r) ==
    /\ \A c \in {"transaction_id", "customer_id", "merchant_id"} : r[c] = StripUpper(r[c])
    /\ \A c \in {"status", "category", "payment_method"} : r[c] = StripLower(r[c])

\* C12: the batch that enters stage 4 is normalized, so a row whose status is
\* completed, pending or failed up to case and surrounding blanks (and that is
\* clean otherwise) survives the status rule with its status trimmed and
\* lower-cased; and the batch validate_against_customers receives in the
\* pipeline is the returned, normalized one, its membership test reading the
\* trimmed upper-case customer_id.
C12_NormalizedBeforeChecks ==
    /\ pc = "apply_business_rules" => \A i \in Rows(df) : IsNormalized(df.rows[i])
    /\ pc = "add_derived_fields" =>
          LET kept == TakeRows(raw.rows, {i \in Rows(raw) : CleanRow(raw.rows, i)}, 1)
          IN  /\ Len(df.rows) = Len(kept)
              /\ \A k \in 1..Len(kept) :
                    /\ StrLower(StrStrip(kept[k].status.s)) \in valid_statuses
                    /\ df.rows[k].status = Str(StrLower(StrStrip(kept[k].status.s)))
    /\ pc = "validated" =>
          LET kept == TakeRows(raw.rows, {i \in Rows(raw) : CleanRow(raw.rows, i)}, 1)
              ids == valid_customers(customers)
              members == {k \in 1..Len(kept) :
                             Str(StrUpper(StrStrip(kept[k].customer_id.s))) \in ids}
          IN  /\ transactions = result
              /\ \A i \in Rows(transactions) : IsNormalized(transactions.rows[i])
              /\ Len(validated.rows) = Cardinality(members)

\* A row with status " Completed " and customer " cust2" went through the
\* status rule and the customer check, and came out as completed, CUST2.
C12_Witness ==
    /\ pc = "validated"
    /\ raw.rows = mixed_case_batch
    /\ Len(validated.rows) = 1
    /\ validated.rows[1].status = Str(sCompleted)
    /\ validated.rows[1].customer_id = Str(<<"C","U","S","T","2">>)
    /\ raw.rows[1].customer_id \notin valid_customers(customers)

\* Rule k as a predicate of one row
RuleBy(k, r) ==
    CASE k = 1 -> Rule1(r)
      [] k = 2 -> Rule2(r)
      [] k = 3 -> Rule3(r)
      [] k = 4 -> Rule4(r)
      [] k = 5 -> Rule5(r)

AllRules(r) == \A k \in 1..5 : RuleBy(k, r)

\* C13: whatever the order in which the five filters are applied, the batch
\* left after the first n of them holds exactly the rows satisfying those n
\* rules, in input order; after all five it holds the rows satisfying the
\* conjunction of the five rules, which is what the order of the code gives.
C13_RulesCommute ==
    /\ df.cols = stageIn.cols
    /\ df.rows = SelectSeq(stageIn.rows,
                           LAMBDA r : \A n \in 1..applied : RuleBy(order[n], r))
    /\ applied = 5 =>
          /\ df.rows = SelectSeq(stageIn.rows, AllRules)
          /\ df = ApplyBusinessRules(stageIn)

\* The five filters were applied in the order 5, 4, 3, 2, 1 to six rows, five
\* of them failing one rule each, and left the clean row.
C13_Witness ==
    /\ applied = 5
    /\ order = <<5, 4, 3, 2, 1>>
    /\ stageIn.rows = rules_batch
    /\ df.rows = <<BaseRow>>

\* The category the closed-right boundaries give an amount in cents
CategoryOf(cents) ==
    IF cents <= 50 * 100 THEN sSmall
    ELSE IF cents <= 200 * 100 THEN sMedium
    ELSE IF cents <= 500 * 100 THEN sLarge
    ELSE IF cents <= 1000 * 100 THEN sVeryLarge
    ELSE sExceptional

\* C14: every row that reaches the derive-fields stage has 0 < amount <=
\* 1,000,000 and leaves it with the one amount_category of its closed-right
\* bucket; none is left without a category.
C14_AmountBuckets ==
    /\ pc = "add_derived_fields" =>
          \A i \in Rows(df) : 0 < df.rows[i].amount.n /\ df.rows[i].amount.n <= 1000000 * 100
    /\ pc = "final_validation" =>
          \A i \in Rows(df) :
              /\ NotNa(df.rows[i].amount_category)
              /\ df.rows[i].amount_category = Str(CategoryOf(df.rows[i].amount.n))

\* A row with amount 50.00, on the first boundary, came out small.
C14_Witness ==
    /\ pc = "final_validation"
    /\ Len(df.rows) = 1
    /\ df.rows[1].amount = Num(5000)
    /\ df.rows[1].amount_category = Str(sSmall)

\* C15: the risk_score of a row is 0 plus 30 if amount > 5000, plus 40 if
\* amount > 10000, plus 50 if status is failed, plus 10 if the day is Saturday
\* or Sunday, plus 20 if the hour is in [0,6), each from that row alone.
C15_RiskScoreSum ==
    pc = "final_validation" =>
        \A i \in Rows(df) :
            LET r == df.rows[i]
                day == (r.transaction_date.n \div 24) % 7
                hour == r.transaction_date.n % 24
                inc(cond, points) == IF cond THEN points ELSE 0
            IN  r.risk_score =
                    Num(inc(r.amount.n > 500000, 30) + inc(r.amount.n > 1000000, 40)
                        + inc(r.status.s = sFailed, 50)
                        + inc(day = 5 \/ day = 6, 10)
                        + inc(0 <= hour /\ hour < 6, 20))

\* A failed row above 10000 on a Sunday at 02:00 scores 30 + 40 + 50 + 10 + 20.
C15_Witness ==
    /\ pc = "final_validation"
    /\ \E i \in Rows(df) :
          /\ df.rows[i].amount.n > 1000000
          /\ df.rows[i].status = Str(sFailed)
          /\ df.rows[i].transaction_date = SundayNight
          /\ df.rows[i].risk_score = Num(150)

-----------------------------------------------------------------------------
(* validate_against_customers *)

\* C16: validate_against_customers returns exactly the rows of the batch whose
\* customer_id is the customer_id of some row of customers, unchanged and in
\* order, with the columns of the batch; the rows removed are the others (3 of
\* the ten-row batch against the seven customers, 7 returned).
C16_CustomerMembership ==
    pc = "validated" =>
        LET member(r) == \E i \in Rows(customers) : customers.rows[i].customer_id = r.customer_id
            absent == {i \in Rows(transactions) : ~member(transactions.rows[i])}
        IN  /\ validated.cols = transactions.cols
            /\ validated.rows = SelectSeq(transactions.rows, member)
            /\ \A k \in Rows(validated) : member(validated.rows[k])
            /\ Len(transactions.rows) - Len(validated.rows) = Cardinality(absent)
            /\ transactions.rows = ten_transactions /\ customers = seven_customers =>
                  Len(validated.rows) = 7

\* The ten-row batch was checked against the seven customers: 7 rows returned.
C16_Witness ==
    /\ pc = "validated"
    /\ transactions.rows = ten_transactions
    /\ customers = seven_customers
    /\ Len(validated.rows) = 7
    /\ validated.rows[3].customer_id = Str(<<"C","U","S","T","3">>)

-----------------------------------------------------------------------------
(* DataQualityChecker *)

ThresholdKeys == {"max_null_percentage", "min_row_count", "max_duplicate_percentage"}

\* The issues a call appends: those of its failing checks, in check order
FailingIssues(name, d, th) ==
    (IF RowCountFails(d, th) THEN <<RowCountIssue(name, d, th)>> ELSE <<>>)
    \o (IF NullPercentageFails(d, th) THEN <<NullPercentageIssue(name, d, th)>> ELSE <<>>)
    \o (IF DuplicatesFail(d, th) THEN <<DuplicatesIssue(name, d)>> ELSE <<>>)

\* The issues the current call has appended so far
Appended == SubSeq(quality_issues, Len(issues0) + 1, Len(quality_issues))

\* C17: a run_quality_checks call goes through the four checks in the order
\* row count, null percentage, duplicates, data types, whatever each returns;
\* it returns the conjunction of the four outcomes, having appended one issue
\* per failing check, in check order: it returns True iff it appended nothing.
C17_AllChecksRun ==
    /\ [](gpc = "returned" =>
            /\ all_passed = (/\ ~RowCountFails(gdf, thresholds)
                             /\ ~NullPercentageFails(gdf, thresholds)
                             /\ ~DuplicatesFail(gdf, thresholds))
            /\ quality_issues = issues0 \o FailingIssues(dataset_name, gdf, thresholds)
            /\ all_passed <=> (quality_issues = issues0)
            /\ (issues0 = <<>> /\ all_passed) => quality_issues = <<>>)
    /\ [][ThresholdKeys \subseteq DOMAIN thresholds =>
            /\ gpc = "row_count" => gpc' = "null_percentage"
            /\ gpc = "null_percentage" => gpc' = "duplicates"
            /\ gpc = "duplicates" => gpc' = "data_types"
            /\ gpc = "data_types" => gpc' = "return"
            /\ gpc = "return" => gpc' = "returned" /\ all_passed' = all_passed]_vars

\* A call on a new instance failed the first three checks and returned False
\* with their three issues, in check order.
C17_Witness ==
    /\ gpc = "returned"
    /\ issues0 = <<>>
    /\ ~all_passed
    /\ Len(quality_issues) = 3
    /\ quality_issues[1].text = "Row count"
    /\ quality_issues[2].text = "Null percentage"
    /\ quality_issues[3].text = "Duplicate percentage"

\* C18: the row-count check appends its issue, and makes the call return
\* False, iff the batch has fewer rows than min_row_count; with the default
\* minimum of 100 a new instance given the clean 50-row batch returns False
\* with exactly one issue, the row-count one.
C18_RowCount ==
    /\ gpc = "null_percentage" =>
          LET n == Len(gdf.rows)
              m == thresholds.min_row_count
          IN  /\ n < m => /\ quality_issues =
                                Append(issues0, [dataset |-> dataset_name, text |-> "Row count",
                                                 value |-> n, limit |-> m])
                          /\ ~all_passed
              /\ n >= m => quality_issues = issues0 /\ all_passed
    /\ (gpc = "returned" /\ gdf = fifty_clean /\ issues0 = <<>>
          /\ thresholds = DefaultThresholds) =>
          /\ ~all_passed
          /\ Len(quality_issues) = 1
          /\ quality_issues[1].text = "Row count"

\* A new instance with the default thresholds returned False on the clean
\* 50-row batch, with the one issue "Row count 50 below minimum 100".
C18_Witness ==
    /\ gpc = "returned"
    /\ gdf = fifty_clean
    /\ thresholds.min_row_count = 100
    /\ ~all_passed
    /\ quality_issues = <<[dataset |-> "transactions", text |-> "Row count",
                           value |-> 50, limit |-> 100]>>

\* A batch of exactly min_row_count rows went through the row-count check
\* without an issue.
C18_ExactMinimumPasses ==
    /\ gpc = "null_percentage"
    /\ Len(gdf.rows) = thresholds.min_row_count
    /\ Len(gdf.rows) > 0
    /\ quality_issues = issues0

\* C19: the null check appends its issue, naming the percentage, iff the null
\* cells of the whole batch divided by rows x columns exceed
\* max_null_percentage; the 200-row, 3-column batch with 100 nulls in one
\* column has 100 of 600.
C19_NullDensity ==
    gpc = "duplicates" =>
        LET nulls == Cardinality({<<i, c>> \in Rows(gdf) \X gdf.cols : IsNull(gdf.rows[i][c])})
            cells == Len(gdf.rows) * Cardinality(gdf.cols)
            limit == thresholds.max_null_percentage
            over == cells > 0 /\ nulls * limit.den > limit.num * cells
            named == {k \in DOMAIN Appended : Appended[k].text = "Null percentage"}
        IN  /\ over <=> named # {}
            /\ over => /\ named = {Len(Appended)}
                       /\ Appended[Len(Appended)].dataset = dataset_name
                       /\ Appended[Len(Appended)].value * cells <= nulls * 10000 + cells
                       /\ Appended[Len(Appended)].value * cells >= nulls * 10000 - cells
                       /\ ~all_passed
            /\ gdf = data_with_nulls => nulls = 100 /\ cells = 600

\* The 200-row batch with 100 null customer_ids failed the null check alone:
\* 16.67 percent of its cells.
C19_Witness ==
    /\ gpc = "returned"
    /\ gdf = data_with_nulls
    /\ issues0 = <<>>
    /\ Len(quality_issues) = 1
    /\ quality_issues[1].text = "Null percentage"
    /\ quality_issues[1].value = 1667

\* A batch with 15 percent nulls in one column, 5 percent of its cells, went
\* through the null check with the 5 percent threshold without an issue.
C19_ColumnAboveBatchAtLimit ==
    /\ gpc = "duplicates"
    /\ gdf = hundred_at_limits
    /\ thresholds = DefaultThresholds
    /\ Appended = <<>>

\* C20: the duplicates check appends its issue iff the batch has a
\* transaction_id column and the rows repeating the transaction_id of an
\* earlier row, divided by the rows, exceed max_duplicate_percentage; without
\* the column it appends nothing.
C20_DuplicateDensity ==
    gpc = "data_types" =>
        LET n == Len(gdf.rows)
            named == {k \in DOMAIN Appended : Appended[k].text = "Duplicate percentage"}
        IN  /\ "transaction_id" \notin gdf.cols => named = {}
            /\ "transaction_id" \in gdf.cols =>
                  LET repeats == {i \in Rows(gdf) : \E j \in 1..(i - 1) :
                                     gdf.rows[j].transaction_id = gdf.rows[i].transaction_id}
                      limit == thresholds.max_duplicate_percentage
                      over == n > 0 /\ Cardinality(repeats) * limit.den > limit.num * n
                  IN  /\ over <=> named # {}
                      /\ over => named = {Len(Appended)} /\ ~all_passed

\* A 100-row batch with two repeated ids, 2 percent, failed the duplicates
\* check with the 1 percent threshold.
C20_Witness ==
    /\ gpc = "data_types"
    /\ gdf = hundred_over_limits
    /\ thresholds = DefaultThresholds
    /\ Appended # <<>>
    /\ Appended[Len(Appended)] = [dataset |-> "transactions",
                                  text |-> "Duplicate percentage", value |-> 200]

\* A batch without transaction_id, its two rows alike, passed every check.
C20_NoKeyColumnPasses ==
    /\ gpc = "returned"
    /\ "transaction_id" \notin gdf.cols
    /\ Len(gdf.rows) = 2
    /\ gdf.rows[1] = gdf.rows[2]
    /\ all_passed

\* C21: an option the thresholds mapping of a checker does not hold takes its
\* default: no run_quality_checks call raises, and a call returns the verdict
\* of the three checks under the mapping completed with the defaults.
C21_MissingOptionsDefault ==
    LET effective == [k \in ThresholdKeys |->
                         IF k \in DOMAIN thresholds THEN thresholds[k]
                         ELSE DefaultThresholds[k]]
    IN  /\ gpc # "raised"
        /\ gpc = "returned" =>
              all_passed = (/\ ~RowCountFails(gdf, effective)
                            /\ ~NullPercentageFails(gdf, effective)
                            /\ ~DuplicatesFail(gdf, effective))

\* quality_issues continues q
IsPrefix(q, r) == Len(q) <= Len(r) /\ SubSeq(r, 1, Len(q)) = q

\* C22: the issue list of a checker only grows: a new instance starts with
\* the empty list, every step of a run_quality_checks call leaves the earlier
\* entries where they are, and when a call has returned the list is the list
\* the call found followed by the issues of that call; only constructing a
\* checker empties it.
C22_IssuesAppendOnly ==
    /\ [][NewChecker => quality_issues' = <<>>]_vars
    /\ [][NewChecker \/ IsPrefix(quality_issues, quality_issues')]_vars
    /\ [](IsPrefix(issues0, quality_issues))
    /\ [](gpc = "returned" =>
            quality_issues = issues0 \o FailingIssues(dataset_name, gdf, thresholds))

\* The second call on one instance returned: the issue of the first call, on
\* test_dataset, is still the first entry, followed by two issues of this call
\* on transactions.
C22_Witness ==
    /\ gpc = "returned"
    /\ Len(issues0) = 1
    /\ issues0[1].dataset = "test_dataset"
    /\ Len(quality_issues) = 3
    /\ quality_issues[1] = issues0[1]
    /\ quality_issues[2].dataset = "transactions"
    /\ quality_issues[3].dataset = "transactions"

-----------------------------------------------------------------------------
(* The stages of transform_transactions *)

\* C25: deduplicating a deduplicated batch changes nothing: the batch
\* _remove_duplicates returned, passed to _remove_duplicates again, comes back
\* with the same records in the same order.
C25_DedupIdempotent ==
    pc = "handle_missing_values" => RemoveDuplicates(df) = df

\* _remove_duplicates returned one row of a three-row batch whose rows share
\* one id, and a second pass returns that one row.
C25_Witness ==
    /\ pc = "handle_missing_values"
    /\ Len(stageIn.rows) = 3
    /\ \A i \in 1..3 : stageIn.rows[i].transaction_id = stageIn.rows[1].transaction_id
    /\ df.rows = <<stageIn.rows[1]>>
    /\ RemoveDuplicates(df).rows = <<stageIn.rows[1]>>

\* Every row of `out` is a row of `in`, and there are no more of them
RowsAmong(out, in) ==
    /\ Len(out.rows) <= Len(in.rows)
    /\ \A j \in Rows(out) : \E i \in Rows(in) : out.rows[j] = in.rows[i]

\* Equal up to case and surrounding blanks; a missing value may have become
\* a string
SameText(a, b) ==
    IF a.k = "str" /\ b.k = "str" THEN StrLower(StrStrip(a.s)) = StrLower(StrStrip(b.s))
    ELSE IsNull(a) \/ a = b

\* C26: no stage adds a record.  The batch a stage returns has no more rows
\* than the batch it received, and each of its rows comes from a row received:
\* the row itself for deduplicate, business-rules, final-validation and
\* validate_against_customers; the row with its missing category or merchant
\* filled for handle-missing-values; the row with its date and amount kept or
\* parsed and its strings trimmed and case-folded for validate-and-coerce.
\* derive-fields returns as many rows as it received, each the row received
\* with columns added.  The batch transform returns has no more rows than the
\* raw batch.
C26_NoStageAddsRecords ==
    /\ pc = "handle_missing_values" => RowsAmong(df, stageIn)
    /\ pc = "validate_data_types" =>
          /\ Len(df.rows) <= Len(stageIn.rows)
          /\ \A j \in Rows(df) : \E i \in Rows(stageIn) : \A c \in stageIn.cols :
                \/ df.rows[j][c] = stageIn.rows[i][c]
                \/ c \in {"category", "merchant_id"} /\ IsNull(stageIn.rows[i][c])
    /\ pc = "apply_business_rules" =>
          /\ Len(df.rows) <= Len(stageIn.rows)
          /\ \A j \in Rows(df) : \E i \in Rows(stageIn) :
                /\ df.rows[j].transaction_date = stageIn.rows[i].transaction_date
                /\ stageIn.rows[i].amount.k = "num" =>
                      df.rows[j].amount = stageIn.rows[i].amount
                /\ \A c \in RawCols \ {"transaction_date", "amount"} :
                      SameText(stageIn.rows[i][c], df.rows[j][c])
    /\ pc = "add_derived_fields" => RowsAmong(df, stageIn)
    /\ pc = "final_validation" =>
          /\ Len(df.rows) = Len(stageIn.rows)
          /\ \A i \in Rows(df) : \A c \in stageIn.cols : df.rows[i][c] = stageIn.rows[i][c]
    /\ pc = "report" => RowsAmong(df, stageIn)
    /\ pc = "returned" => Len(result.rows) <= Len(raw.rows)
    /\ pc = "validated" =>
          /\ RowsAmong(validated, transactions)
          /\ Len(validated.rows) <= Len(raw.rows)

\* The five-row test batch: transform returned two rows of it, and
\* validate_against_customers none of the two.
C26_Witness ==
    /\ pc = "validated"
    /\ raw = Frame(RawCols, sample_dirty_data)
    /\ Len(result.rows) = 2
    /\ transactions = result
    /\ Len(validated.rows) = 0

\* C27: a transform call goes through deduplicate, handle missing values,
\* validate and coerce, business rules, derive fields and final validation in
\* that order, once each, a stage either raising or handing its output to the
\* next; the statistics are stored by the step after a final validation that
\* found nothing, and by no other step, and that step returns the validated
\* batch.
C27_StagesInOrder ==
    [][/\ pc = "idle" => pc' = "remove_duplicates" /\ df' = raw'
       /\ pc = "remove_duplicates" => pc' \in {"handle_missing_values", "raised"}
       /\ pc = "handle_missing_values" => pc' \in {"validate_data_types", "raised"}
       /\ pc = "validate_data_types" => pc' \in {"apply_business_rules", "raised"}
       /\ pc = "apply_business_rules" => pc' = "add_derived_fields"
       /\ pc = "add_derived_fields" => pc' = "final_validation"
       /\ pc = "final_validation" =>
             \/ pc' = "report" /\ missing_fields(df) = {} /\ NoNullIn(df, required_fields)
                            /\ df' = df
             \/ pc' = "raised"
       /\ pc' \in {"handle_missing_values", "validate_data_types", "apply_business_rules",
                   "add_derived_fields", "final_validation", "report"} => stageIn' = df
       /\ pc = "report" =>
             /\ pc' = "returned"
             /\ result' = df
             /\ quality_report'["transactions"].final_records = Len(df.rows)
       /\ quality_report' # quality_report => pc = "report"]_vars

\* A call on a one-row batch went through the six stages and returned the row
\* with its derived fields, the statistics stored.
C27_Witness ==
    /\ pc = "returned"
    /\ raw = Frame(RawCols, <<BaseRow>>)
    /\ Len(result.rows) = 1
    /\ {"risk_score", "risk_level", "amount_category"} \subseteq result.cols
    /\ quality_report["transactions"].initial_records = 1
    /\ quality_report["transactions"].final_records = 1

\* C28: a transform call that raises leaves the quality report as the call
\* found it: the call, and every step of it up to and including the one that
\* raises, leaves the report unchanged, and a call that raised returned no
\* batch.
C28_RaiseLeavesReport ==
    /\ [][(pc \in {"idle", "remove_duplicates", "handle_missing_values",
                   "validate_data_types", "apply_business_rules", "add_derived_fields",
                   "final_validation"}) => quality_report' = quality_report]_vars
    /\ [][pc' = "raised" => quality_report' = quality_report /\ result' = result]_vars
    /\ [](outcome = "raised" => pc = "raised" /\ result = EmptyFrame)

\* A call raised in final validation on an instance whose report holds the
\* entry of an earlier call: two rows in, one out, not the one row of this call.
C28_Witness ==
    /\ pc = "raised"
    /\ error = "ValueError: Critical fields contain null values"
    /\ Len(raw.rows) = 1
    /\ "transactions" \in DOMAIN quality_report
    /\ quality_report["transactions"].initial_records = 2
    /\ quality_report["transactions"].final_records = 1

\* C29: each of the six stage methods leaves the batch it was passed as it
\* was: whenever a stage has been called, the caller's batch holds the records,
\* fields and values it held when it was passed.
C29_StagesPure ==
    raw = stageIn

-----------------------------------------------------------------------------
(* ETLPipeline.run *)

\* The calls of a run that returned True, in order
CompleteRun ==
    <<"start_audit_log", "extract_customers", "extract_transactions",
      "transform_transactions", "validate_against_customers", "run_quality_checks",
      "load_customers", "load_transactions", "update_audit_log success", "close">>

\* The position of the first call of `name` in this run, 0 if there is none
CallAt(name) ==
    IF \E i \in 1..Len(calls) : calls[i] = name
    THEN CHOOSE i \in 1..Len(calls) :
            calls[i] = name /\ \A j \in 1..(i - 1) : calls[j] # name
    ELSE 0

\* How many times `name` was called in this run
CallCount(name) == Cardinality({i \in 1..Len(calls) : calls[i] = name})

\* C23: the quality gate of the pipeline is advisory: run_quality_checks
\* returns its verdict without raising, appends one issue per failing check,
\* and whatever the verdict the run goes on to load_customers; load_customers,
\* load_transactions and the 'success' audit update are then called as after a
\* verdict of true, a run that returns having made exactly the calls of a
\* complete run and loaded the validated batch.
C23_FailedGateAdvisory ==
    [][/\ run_pc = "run_quality_checks" =>
             /\ run_pc' = "load_customers"
             /\ exc' = ""
             /\ all_passed' = (quality_issues' = quality_issues)
             /\ IsPrefix(quality_issues, quality_issues')
       /\ run_pc' = "returned" =>
             /\ calls' = CompleteRun
             /\ loaded' = validated'
             /\ gdf' = validated']_vars

\* A run whose gate failed on the two validated rows of the six-row batch
\* returned True: both loads and the 'success' update were made and the audit
\* row of the run says success.
C23_Witness ==
    /\ run_pc = "returned"
    /\ ~all_passed
    /\ Len(quality_issues) > 0
    /\ raw = Frame(RawCols, orphan_batch)
    /\ Len(loaded.rows) = 2
    /\ CallAt("load_customers") = 7
    /\ CallAt("load_transactions") = 8
    /\ CallAt("update_audit_log success") = 9
    /\ etl_audit_log[run_id].status = "success"

\* C24: in a run that reached the load phase the calls were start_audit_log,
\* the two extracts, transform_transactions, validate_against_customers and
\* run_quality_checks in that order; validate_against_customers was passed what
\* transform_transactions returned, run_quality_checks what
\* validate_against_customers returned, and load_transactions loads that same
\* batch; no load is called before run_quality_checks.
C24_FixedOrder ==
    /\ CallAt("load_customers") # 0 =>
          /\ SubSeq(calls, 1, 6) = SubSeq(CompleteRun, 1, 6)
          /\ transactions = result
          /\ customers = raw_customers
          /\ gdf = validated
    /\ CallAt("load_transactions") # 0 =>
          /\ CallAt("load_customers") = 7
          /\ CallAt("load_transactions") = 8
          /\ loaded = validated
    /\ \A i \in 1..Len(calls) :
          calls[i] \in {"load_customers", "load_transactions"} =>
             /\ CallAt("run_quality_checks") # 0
             /\ CallAt("transform_transactions") < CallAt("validate_against_customers")
             /\ CallAt("validate_against_customers") < CallAt("run_quality_checks")
             /\ CallAt("run_quality_checks") < i

\* The six-row batch was loaded: transform returned three rows,
\* validate_against_customers two of them, and the two were loaded.
C24_Witness ==
    /\ CallAt("load_transactions") = 8
    /\ Len(result.rows) = 3
    /\ Len(validated.rows) = 2
    /\ loaded = validated
    /\ loaded # result

\* C30: a run that ended closed the loader once, as its last call; a run that
\* raised after start_audit_log returned called update_audit_log with status
\* 'failed' right before close; a run whose start_audit_log raised called no
\* update_audit_log.
C30_ClosedOnceAuditFailed ==
    run_pc \in {"returned", "raised"} =>
       /\ CallCount("close") = 1
       /\ calls[Len(calls)] = "close"
       /\ (run_pc = "raised") = (exc # "")
       /\ run_pc = "raised" /\ exc # "start_audit_log failed" =>
             /\ CallCount("update_audit_log failed") = 1
             /\ calls[Len(calls) - 1] = "update_audit_log failed"
       /\ run_pc = "raised" /\ exc = "start_audit_log failed" =>
             /\ CallCount("update_audit_log failed") = 0
             /\ CallCount("update_audit_log success") = 0

====
